---- MODULE Spec2Model ----
(***************************************************************************)
(* Collision core of my_library (bevy_framework/bevy_collision): Rect2D,   *)
(* StaticQuadTree, AxisAlignedBoundingBox and check_collisions.            *)
(*                                                                         *)
(* Coordinates are f32 in the source.  The model uses integers: every      *)
(* value the model computes is a sum, a difference or a halving of         *)
(* integers, and the world sizes are multiples of 2^(MaxDepth+1), so that  *)
(* every halving done by center() is exact, as it is in f32.               *)
(* Node indices are 0-based as in the source; nodes[i] of the source is    *)
(* nodes[i + 1] of the model's sequence.                                   *)
(*                                                                         *)
(* Spec is the tick of a scene: the tree is built once, bodies move and    *)
(* check_collisions<A, B> runs.  SpecQuery applies the tree's query        *)
(* operations smallest_node and intersecting_nodes to one target.          *)
(* SpecScene is the 1024 x 768 world of the bouncy example, SpecRect       *)
(* applies Rect2D's operations to rectangles of their own.                 *)
(*                                                                         *)
(* Around the collision core: SpecHandoff is the handoff of the built      *)
(* world from the builder thread of Mars Base One to its frame loop,       *)
(* SpecRng is RandomNumberGenerator, SpecAssets is AssetManager.           *)
(*                                                                         *)
(* SpecPass is one pass of check_collisions over bodies placed anywhere,   *)
(* SpecAnimation the AnimationCycle of Flappy Dragon, SpecBouncy the       *)
(* collisions system of the bouncy example, SpecImpulses is sum_impulses,  *)
(* SpecClock is physics_clock with apply_velocity, SpecMars the saving of  *)
(* miners and end_game in Mars Base One, SpecScores the high-score server. *)
(***************************************************************************)
EXTENDS Integers, Sequences, FiniteSets, Bags, TLC

VARIABLES
    screen_size,    \* argument of StaticQuadTree::new (world width, height)
    max_depth,      \* argument of StaticQuadTree::new
    nodes,          \* StaticQuadTree.nodes, <<>> before construction
    target,         \* the Rect2D handed to the tree's query operations
    sn_path,        \* values of current_index in the last smallest_node call
    in_nodes,       \* result of the last intersecting_nodes call
    called,         \* which query operations ran on the current target
    bodies,         \* entity -> its components (position, box, markers)
    spatial_index,  \* spatial_index of the last check_collisions pass
    events,         \* bag of OnCollision events written by the last pass
    checked,        \* TRUE once check_collisions ran in the current tick
    prev_events,    \* <<events of the pass before the last one of the tick>>,
                    \* <<>> while the tick had fewer than two passes
    rect_a,         \* a Rect2D handed to intersect and quadrants
    rect_b,         \* the other Rect2D handed to intersect
    placed,         \* the two body positions the rectangles were made from
    rect_out,       \* what the last Rect2D operation returned
    phase,          \* State<GamePhase> of Mars Base One
    next_state,     \* NextState<GamePhase>: the phase asked for, or "None"
    WORLD_READY,    \* the AtomicBool
    NEW_WORD,       \* the Option<World> in the Mutex: 0 for None, else the world
    lock,           \* holder of the Mutex NEW_WORD: 0 free, else the builder
    builders,       \* builders[t]: how far the t-th builder thread has come
    consumed,       \* the worlds setup took out of NEW_WORD, in order
    panicked,       \* TRUE once take().unwrap() met None
    rng_made,       \* how each RandomNumberGenerator was constructed
    rng,            \* the RandomNumberGenerator values
    requests,       \* the requests made so far, the same for every generator
    rng_out,        \* what each generator returned, request by request
    asset_list,     \* AssetManager.asset_list
    asset_result,   \* "Ok" or "Err" of the last add_ call, "None" before it
    asset_call,     \* the last add_ call and its arguments
    asset_adds,     \* number of add_ calls made
    animation,      \* the AnimationCycle component of the animated entity
    sprite_index,   \* texture_atlas.index of its Sprite
    anim_call,      \* the last call on the animation and its arguments
    anim_out,       \* the impulse and the sound the last call gave out
    balls,          \* bouncy: entity -> its Transform.translation and its box
    ball_index,     \* bouncy: spatial_index of the last collisions pass
    tested,         \* bouncy: entity -> the bodies its search tested, in order
    bounced,        \* bouncy: entity -> the impulses its search wrote
    checks,         \* bouncy: collision_time.checks
    impulses,       \* the Impulse events sum_impulses has not read yet
    velocities,     \* entity -> its Velocity, for the entities that have one
    impulse_run,    \* what the last run of sum_impulses read and did
    clock,          \* PhysicsTimer.0 of physics_clock, in ms
    physics_position, \* entity -> its PhysicsPosition and Transform.translation
    on_tick,        \* the PhysicsTick events apply_velocity has not read yet
    clock_ran,      \* the physics systems that ran in the current frame
    clock_call,     \* the last call of physics_clock and what it did
    player,         \* Mars Base One: the Player component
    miners,         \* Mars Base One: the Miner entities spawned and alive
    on_miner,       \* the OnCollision<Player, Miner> events not read yet
    despawns,       \* the despawn commands queued in the current frame
    bursts,         \* the particle bursts asked for in the current frame
    final_score,    \* the FinalScore events written
    mars_ran,       \* the Playing systems that ran in the current frame
    end_game_run,   \* the last run of end_game and what it asked for
    table,          \* high-score server: HighScoreTable.entries
    high_scores_file, \* high-score server: what save wrote to high_scores.json
    table_lock,     \* holder of the Mutex around the table: 0 free
    handlers,       \* request -> how far its submit_score has come
    submitted       \* the scores of the add_entry calls made so far

vars == <<screen_size, max_depth, nodes, target, sn_path, in_nodes, called,
          bodies, spatial_index, events, checked, prev_events,
          rect_a, rect_b, placed, rect_out,
          phase, next_state, WORLD_READY, NEW_WORD, lock, builders, consumed,
          panicked, rng_made, rng, requests, rng_out,
          asset_list, asset_result, asset_call, asset_adds,
          animation, sprite_index, anim_call, anim_out,
          balls, ball_index, tested, bounced, checks,
          impulses, velocities, impulse_run,
          clock, physics_position, on_tick, clock_ran, clock_call,
          player, miners, on_miner, despawns, bursts, final_score, mars_ran,
          end_game_run,
          table, high_scores_file, table_lock, handlers, submitted>>

treeVars == <<screen_size, max_depth, nodes>>
queryVars == <<target, sn_path, in_nodes, called>>
collisionVars == <<bodies, spatial_index, events, checked, prev_events>>
rectVars == <<rect_a, rect_b, placed, rect_out>>

coreVars == <<treeVars, queryVars, collisionVars>>

handoffVars == <<phase, next_state, WORLD_READY, NEW_WORD, lock, builders,
                 consumed, panicked>>

rngVars == <<rng_made, rng, requests, rng_out>>
assetVars == <<asset_list, asset_result, asset_call, asset_adds>>

\* the state of the games and of the library around the collision core
animationVars == <<animation, sprite_index, anim_call, anim_out>>

\* the state of the library's systems around the games
bouncyVars == <<balls, ball_index, tested, bounced, checks>>

impulseVars == <<impulses, velocities, impulse_run>>

clockVars == <<clock, physics_position, on_tick, clock_ran, clock_call>>

\* Mars Base One while Playing, beside phase and next_state
marsVars == <<player, miners, on_miner, despawns, bursts, final_score, mars_ran,
              end_game_run>>

\* the high-score server
scoreVars == <<table, high_scores_file, table_lock, handlers, submitted>>

playVars == <<animationVars, bouncyVars, impulseVars, clockVars, marsVars, scoreVars>>

gameVars == <<handoffVars, rngVars, assetVars, playVars>>

\* the state outside the tree and the collision pass
elsewhereVars == <<rectVars, gameVars>>

----------------------------------------------------------------------------
(* Bounds of the model *)

\* largest max_depth handed to StaticQuadTree::new
MaxDepth == 2

RECURSIVE Pow2(_)
Pow2(n) == IF n = 0 THEN 1 ELSE 2 * Pow2(n - 1)

\* world sizes are multiples of Unit, which keeps every center() exact
Unit == Pow2(MaxDepth + 1)

ScreenSizes == {<<Unit, Unit>>, <<2 * Unit, Unit>>}

Depths == 0..MaxDepth

----------------------------------------------------------------------------
(* Vec2 and Rect2D *)

Vec2(x, y) == [x |-> x, y |-> y]

Rect2D_new(min, max) == [min |-> min, max |-> max]

\* intersect() comparing only the minimum of self with the maximum of other
intersect_one_sided(self, other) ==
    /\ self.min.x <= other.max.x
    /\ self.min.y <= other.max.y

intersect(self, other) ==
    /\ self.min.x <= other.max.x
    /\ self.max.x >= other.min.x
    /\ self.min.y <= other.max.y
    /\ self.max.y >= other.min.y

center(self) ==
    Vec2((self.min.x + self.max.x) \div 2, (self.min.y + self.max.y) \div 2)

\* quadrants() with the half size taken for the centre
quadrants_half_size(self) ==
    LET c == Vec2((self.max.x - self.min.x) \div 2, (self.max.y - self.min.y) \div 2) IN
    << Rect2D_new(self.min, c),
       Rect2D_new(Vec2(c.x, self.min.y), Vec2(self.max.x, c.y)),
       Rect2D_new(Vec2(self.min.x, c.y), Vec2(c.x, self.max.y)),
       Rect2D_new(c, self.max) >>

quadrants(self) ==
    LET c == center(self) IN
    << Rect2D_new(self.min, c),
       Rect2D_new(Vec2(c.x, self.min.y), Vec2(self.max.x, c.y)),
       Rect2D_new(Vec2(self.min.x, c.y), Vec2(c.x, self.max.y)),
       Rect2D_new(c, self.max) >>

----------------------------------------------------------------------------
(* StaticQuadTree *)

None == <<>>

StaticQuadTreeNode(bounds, children) == [bounds |-> bounds, children |-> children]

\* nodes[index] of the source
NodeAt(ns, index) == ns[index + 1]

RECURSIVE subdivide(_, _, _, _)
RECURSIVE subdivide_children(_, _, _, _)

subdivide(ns, index, depth, maxd) ==
    LET children == quadrants(NodeAt(ns, index).bounds)
        n == Len(ns)
        child_index == <<n, n + 1, n + 2, n + 3>>
        pushed == [ns EXCEPT ![index + 1].children = child_index]
                    \o [k \in 1..4 |-> StaticQuadTreeNode(children[k], None)]
    IN  IF depth < maxd
        THEN subdivide_children(pushed, child_index, depth + 1, maxd)
        ELSE pushed

\* the loop "for index in child_index" of subdivide: four rounds, each on the
\* nodes the round before it has left, which has pushed its own (Len grows)
subdivide_children(ns, child_index, depth, maxd) ==
    LET first == subdivide(ns, child_index[1], depth, maxd)
        second == subdivide(first, child_index[2], depth, maxd)
        third == subdivide(second, child_index[3], depth, maxd)
        fourth == subdivide(third, child_index[4], depth, maxd)
    IN  IF Len(ns) < Len(first) /\ Len(first) < Len(second) /\ Len(second) < Len(third)
        THEN fourth
        ELSE third

StaticQuadTree_new(size, maxd) ==
    LET half == Vec2(size[1] \div 2, size[2] \div 2)
        top == StaticQuadTreeNode(Rect2D_new(Vec2(0 - half.x, 0 - half.y), half), None)
    IN  subdivide(<<top>>, 0, 1, maxd)

RECURSIVE smallest_node_loop(_, _, _)
\* smallest_node diving into the first matching child, however many match
smallest_node_first_match(ns, current_index, t) ==
    LET children == NodeAt(ns, current_index).children IN
    IF children # None
    THEN LET matches == SelectSeq(children,
                           LAMBDA child : intersect(NodeAt(ns, child).bounds, t))
         IN  IF Len(matches) >= 1
             THEN <<current_index>> \o smallest_node_loop(ns, matches[1], t)
             ELSE <<current_index>>
    ELSE <<current_index>>

\* smallest_node leaving its loop after one dive
smallest_node_one_dive(ns, current_index, t) ==
    LET children == NodeAt(ns, current_index).children IN
    IF children # None
    THEN LET matches == SelectSeq(children,
                           LAMBDA child : intersect(NodeAt(ns, child).bounds, t))
         IN  IF Len(matches) = 1
             THEN <<current_index, matches[1]>>
             ELSE <<current_index>>
    ELSE <<current_index>>

\* the loop of smallest_node: the values current_index takes, in order
smallest_node_loop(ns, current_index, t) ==
    LET children == NodeAt(ns, current_index).children IN
    IF children # None
    THEN LET matches == SelectSeq(children,
                           LAMBDA child : intersect(NodeAt(ns, child).bounds, t))
         IN  IF Len(matches) = 1
             THEN <<current_index>> \o smallest_node_loop(ns, matches[1], t)
             ELSE <<current_index>>
    ELSE <<current_index>>

smallest_node(ns, t) ==
    LET path == smallest_node_loop(ns, 0, t) IN path[Len(path)]

RECURSIVE tree_intersect(_, _, _, _)
RECURSIVE tree_intersect_children(_, _, _, _)

\* StaticQuadTree::intersect recording only the nodes without children
tree_intersect_leaves(ns, index, result, t) ==
    IF intersect(NodeAt(ns, index).bounds, t)
    THEN LET children == NodeAt(ns, index).children IN
         IF children # None
         THEN tree_intersect_children(ns, children, result, t)
         ELSE result \cup {index}
    ELSE result

\* StaticQuadTree::intersect, returning the result set it was handed, extended
tree_intersect(ns, index, result, t) ==
    IF intersect(NodeAt(ns, index).bounds, t)
    THEN LET children == NodeAt(ns, index).children IN
         IF children # None
         THEN tree_intersect_children(ns, children, result \cup {index}, t)
         ELSE result \cup {index}
    ELSE result

\* the loop "for child in children" leaving out the last child
tree_intersect_skip_last(ns, children, result, t) ==
    LET first == tree_intersect(ns, children[1], result, t)
        second == tree_intersect(ns, children[2], first, t)
    IN  IF result \subseteq first /\ first \subseteq second
        THEN tree_intersect(ns, children[3], second, t)
        ELSE second

\* the loop "for child in children" of StaticQuadTree::intersect over the
\* four children of a node: each round extends the result set the round
\* before it has left (the set only grows)
tree_intersect_children(ns, children, result, t) ==
    LET first == tree_intersect(ns, children[1], result, t)
        second == tree_intersect(ns, children[2], first, t)
        third == tree_intersect(ns, children[3], second, t)
    IN  IF result \subseteq first /\ first \subseteq second /\ second \subseteq third
        THEN tree_intersect(ns, children[4], third, t)
        ELSE third

intersecting_nodes(ns, t) == tree_intersect(ns, 0, {}, t)

----------------------------------------------------------------------------
(* AxisAlignedBoundingBox, PhysicsPosition and check_collisions *)

\* new() keeping the full size as the half size
AxisAlignedBoundingBox_new_full_size(width, height) ==
    [half_size |-> Vec2(width, height)]

AxisAlignedBoundingBox_new(width, height) ==
    [half_size |-> Vec2(width \div 2, height \div 2)]

as_rect(self, translate) ==
    Rect2D_new(Vec2(translate.x - self.half_size.x, translate.y - self.half_size.y),
               Vec2(translate.x + self.half_size.x, translate.y + self.half_size.y))

PhysicsPosition_new(start) == [start_frame |-> start, end_frame |-> start]

\* Query<(Entity, &PhysicsPosition, &AxisAlignedBoundingBox), With<M>>
QueryWith(bs, marker) == { e \in DOMAIN bs : marker \in bs[e].markers }

\* bbox.as_rect(transform.end_frame) of entity e
BodyRect(bs, e) == as_rect(bs[e].bbox, bs[e].position.end_frame)

\* first loop of check_collisions pushing a body to the bucket of every node
\* its box intersects
build_spatial_index_all_nodes(ns, bs, query_b) ==
    LET in_nodes_of(e) == intersecting_nodes(ns, BodyRect(bs, e)) IN
    [ node \in UNION { in_nodes_of(e) : e \in query_b } |->
        { [entity |-> e, bbox |-> BodyRect(bs, e)] : e \in { b \in query_b : node \in in_nodes_of(b) } } ]

\* the first loop filing every body under the root
build_spatial_index_root(ns, bs, query_b) ==
    [ node \in { 0 : e \in query_b } |->
        { [entity |-> e, bbox |-> BodyRect(bs, e)] : e \in query_b } ]

\* first loop of check_collisions: every body of query_b is pushed to the
\* bucket of its smallest node.  A bucket is the set of its (entity, bbox)
\* entries; every entity is pushed once.
build_spatial_index(ns, bs, query_b) ==
    LET located == { <<e, smallest_node(ns, BodyRect(bs, e))>> : e \in query_b } IN
    [ node \in { at[2] : at \in located } |->
        { [entity |-> e, bbox |-> BodyRect(bs, e)] : e \in { b \in query_b : <<b, node>> \in located } } ]

OnCollision(entity_a, entity_b) == [entity_a |-> entity_a, entity_b |-> entity_b]

\* writes() without the test of the two boxes against each other
writes_unfiltered(ns, index, bs, entity_a, entry) ==
    LET bbox_a == BodyRect(bs, entity_a) IN
    IF entity_a # entry.entity
    THEN Cardinality({ node \in intersecting_nodes(ns, bbox_a) :
                         node \in DOMAIN index /\ entry \in index[node] })
    ELSE 0

\* the second loop telling the two bodies apart by their boxes
writes_by_value(ns, index, bs, entity_a, entry) ==
    LET bbox_a == BodyRect(bs, entity_a) IN
    IF bbox_a # entry.bbox /\ intersect(bbox_a, entry.bbox)
    THEN Cardinality({ node \in intersecting_nodes(ns, bbox_a) :
                         node \in DOMAIN index /\ entry \in index[node] })
    ELSE 0

\* number of sender.write calls of the second loop for entity_a and one entry
writes(ns, index, bs, entity_a, entry) ==
    LET bbox_a == BodyRect(bs, entity_a) IN
    IF entity_a # entry.entity /\ intersect(bbox_a, entry.bbox)
    THEN Cardinality({ node \in intersecting_nodes(ns, bbox_a) :
                         node \in DOMAIN index /\ entry \in index[node] })
    ELSE 0

\* second loop of check_collisions: the bag of events written
collision_events(ns, index, bs, query_a) ==
    LET entries == UNION { index[node] : node \in DOMAIN index }
        written == { p \in query_a \X entries : writes(ns, index, bs, p[1], p[2]) > 0 }
        count(ev) == LET ps == { p \in written : OnCollision(p[1], p[2].entity) = ev }
                         p == CHOOSE q \in ps : TRUE
                     IN  writes(ns, index, bs, p[1], p[2])
    IN  [ ev \in { OnCollision(p[1], p[2].entity) : p \in written } |-> count(ev) ]

----------------------------------------------------------------------------
(* Inputs of the tree's query operations *)

\* coordinates from one unit outside the world to one unit outside it
Coords(extent) == (0 - (extent \div 2) - 1)..((extent \div 2) + 1)

\* side lengths of the targets: from a point to wider than the smallest
\* quadrant, wider than a quadrant of the root, and as wide as the world
Extents(extent) == {0, 1, 2, 3, (extent \div 2) + 1, extent}

\* the intervals [lo, hi] over the coordinates with such a length
Intervals(extent) ==
    { p \in Coords(extent) \X Coords(extent) : (p[2] - p[1]) \in Extents(extent) }

\* every well-formed rectangle with such sides
Targets(size) ==
    { Rect2D_new(Vec2(x[1], y[1]), Vec2(x[2], y[2])) :
        x \in Intervals(size[1]), y \in Intervals(size[2]) }

NoBodies == [e \in {} |-> None]

----------------------------------------------------------------------------
(* Operations *)

\* StaticQuadTree::new, run once at scene setup
New ==
    /\ nodes = <<>>
    /\ nodes' = StaticQuadTree_new(screen_size, max_depth)
    /\ UNCHANGED <<screen_size, max_depth, queryVars, collisionVars, elsewhereVars>>

\* StaticQuadTree::smallest_node on the current target
SmallestNode ==
    /\ nodes # <<>>
    /\ "smallest_node" \notin called
    /\ sn_path' = smallest_node_loop(nodes, 0, target)
    /\ called' = called \cup {"smallest_node"}
    /\ UNCHANGED <<treeVars, target, in_nodes, collisionVars, elsewhereVars>>

\* StaticQuadTree::intersecting_nodes on the current target
IntersectingNodes ==
    /\ nodes # <<>>
    /\ "intersecting_nodes" \notin called
    /\ in_nodes' = intersecting_nodes(nodes, target)
    /\ called' = called \cup {"intersecting_nodes"}
    /\ UNCHANGED <<treeVars, target, sn_path, collisionVars, elsewhereVars>>

\* no tree is built and no query is made
NoTree ==
    /\ screen_size = <<Unit, Unit>>
    /\ max_depth = 0
    /\ nodes = <<>>

NoQuery ==
    /\ target = Rect2D_new(Vec2(0, 0), Vec2(0, 0))
    /\ sn_path = <<>>
    /\ in_nodes = {}
    /\ called = {}

\* no scene: the collision pass has no bodies and never ran
NoScene ==
    /\ bodies = NoBodies
    /\ spatial_index = NoBodies
    /\ events = EmptyBag
    /\ checked = FALSE
    /\ prev_events = <<>>

\* no rectangle was handed to Rect2D's operations
NoRects ==
    /\ rect_a = None
    /\ rect_b = None
    /\ placed = None
    /\ rect_out = None

\* Mars Base One has not left its Loading phase
NoHandoff ==
    /\ phase = "Loading"
    /\ next_state = "None"
    /\ WORLD_READY = FALSE
    /\ NEW_WORD = 0
    /\ lock = 0
    /\ builders = <<>>
    /\ consumed = <<>>
    /\ panicked = FALSE

\* no RandomNumberGenerator is constructed
NoRng ==
    /\ rng_made = <<>>
    /\ rng = <<>>
    /\ requests = <<>>
    /\ rng_out = <<>>

\* no AssetManager is constructed
NoAssets ==
    /\ asset_list = <<>>
    /\ asset_result = "None"
    /\ asset_call = None
    /\ asset_adds = 0

\* no entity is animated
NoAnimation ==
    /\ animation = <<>>
    /\ sprite_index = 0
    /\ anim_call = <<>>
    /\ anim_out = <<>>

\* no ball is spawned
NoBouncy ==
    /\ balls = <<>>
    /\ ball_index = <<>>
    /\ tested = <<>>
    /\ bounced = <<>>
    /\ checks = 0

\* no entity has a Velocity and no Impulse is written
NoImpulses ==
    /\ impulses = <<>>
    /\ velocities = <<>>
    /\ impulse_run = <<>>

\* no entity has a PhysicsPosition and no frame has begun
NoClock ==
    /\ clock = 0
    /\ physics_position = <<>>
    /\ on_tick = 0
    /\ clock_ran = {}
    /\ clock_call = <<>>

\* no player and no miner is spawned
NoMars ==
    /\ player = <<>>
    /\ miners = {}
    /\ on_miner = <<>>
    /\ despawns = {}
    /\ bursts = 0
    /\ final_score = <<>>
    /\ mars_ran = {}
    /\ end_game_run = <<>>

\* the high-score server is not started
NoScores ==
    /\ table = <<>>
    /\ high_scores_file = <<>>
    /\ table_lock = 0
    /\ handlers = <<>>
    /\ submitted = <<>>

\* none of the library's systems has an entity to work on
NoPlay == NoAnimation /\ NoBouncy /\ NoImpulses /\ NoClock /\ NoMars /\ NoScores

\* no game is running
NoGame == NoHandoff /\ NoRng /\ NoAssets /\ NoPlay

\* nothing outside the tree and the collision pass is in use
NothingElsewhere == NoRects /\ NoGame

InitQuery ==
    /\ screen_size \in ScreenSizes
    /\ max_depth \in Depths
    /\ nodes = <<>>
    /\ target \in Targets(screen_size)
    /\ sn_path = <<>>
    /\ in_nodes = {}
    /\ called = {}
    /\ NoScene
    /\ NothingElsewhere

NextQuery == New \/ SmallestNode \/ IntersectingNodes

SpecQuery == InitQuery /\ [][NextQuery]_vars

----------------------------------------------------------------------------
(* The collision pass of a tick *)

Entities == {1, 2}

\* which entities carry the marker components A and B of check_collisions<A, B>;
\* with A and B the same component the two queries yield the same entities
Markers ==
    { [e \in Entities |-> {"A", "B"}],
      [e \in Entities |-> IF e = 1 THEN {"A"} ELSE {"B"}],
      [e \in Entities |-> IF e = 1 THEN {"A", "B"} ELSE {"B"}],
      [e \in Entities |-> IF e = 1 THEN {"A"} ELSE {"A", "B"}] }

Boxes ==
    { AxisAlignedBoundingBox_new(2, 2),
      AxisAlignedBoundingBox_new(4, 2),
      AxisAlignedBoundingBox_new(0, 0) }

\* positions a body may take: across the world and beyond its edge in x,
\* around the centre line in y
XRange(size) == (0 - (size[1] \div 2) - 2)..((size[1] \div 2) + 2)
YRange == (0 - 1)..1

Velocities == { Vec2(1, 0), Vec2(0 - 1, 0), Vec2(0, 1), Vec2(0, 0 - 1) }

\* apply_velocity for a tick in which only entity e has a velocity; the
\* events of the previous tick are gone
ApplyVelocity(e, v) ==
    /\ nodes # <<>>
    /\ LET p == bodies[e].position.end_frame
           q == Vec2(p.x + v.x, p.y + v.y)
       IN  /\ q.x \in XRange(screen_size)
           /\ q.y \in YRange
           /\ bodies' = [bodies EXCEPT ![e].position.end_frame = q]
    /\ spatial_index' = NoBodies
    /\ events' = EmptyBag
    /\ checked' = FALSE
    /\ prev_events' = <<>>
    /\ UNCHANGED <<treeVars, queryVars, elsewhereVars>>

\* a pass that does not write again what the pass before it wrote
CheckCollisions_skip_reported ==
    /\ nodes # <<>>
    /\ LET index == build_spatial_index(nodes, bodies, QueryWith(bodies, "B"))
           found == collision_events(nodes, index, bodies, QueryWith(bodies, "A"))
       IN  /\ spatial_index' = index
           /\ events' = [ ev \in { e \in DOMAIN found : e \notin DOMAIN events } |-> found[ev] ]
    /\ checked' = TRUE
    /\ prev_events' = IF checked THEN <<events>> ELSE <<>>
    /\ UNCHANGED <<treeVars, queryVars, bodies, elsewhereVars>>

\* a pass that splits the last leaf of the tree once more
CheckCollisions_split_leaf ==
    /\ nodes # <<>>
    /\ LET index == build_spatial_index(nodes, bodies, QueryWith(bodies, "B")) IN
       /\ spatial_index' = index
       /\ events' = collision_events(nodes, index, bodies, QueryWith(bodies, "A"))
    /\ checked' = TRUE
    /\ prev_events' = IF checked THEN <<events>> ELSE <<>>
    /\ nodes' = subdivide(nodes, Len(nodes) - 1, 1, 1)
    /\ UNCHANGED <<screen_size, max_depth, queryVars, bodies, elsewhereVars>>

\* check_collisions<A, B>: the spatial index is a local of the system, built
\* anew by every pass
CheckCollisions ==
    /\ nodes # <<>>
    /\ LET index == build_spatial_index(nodes, bodies, QueryWith(bodies, "B")) IN
       /\ spatial_index' = index
       /\ events' = collision_events(nodes, index, bodies, QueryWith(bodies, "A"))
    /\ checked' = TRUE
    /\ prev_events' = IF checked THEN <<events>> ELSE <<>>
    /\ UNCHANGED <<treeVars, queryVars, bodies, elsewhereVars>>

Init ==
    /\ screen_size = <<Unit, Unit>>
    /\ max_depth \in Depths
    /\ nodes = <<>>
    /\ NoQuery
    /\ \E m \in Markers : \E box2 \in Boxes :
         bodies = [e \in Entities |->
                     [position |-> PhysicsPosition_new(Vec2(0, 0)),
                      bbox |-> IF e = 1 THEN AxisAlignedBoundingBox_new(2, 2) ELSE box2,
                      markers |-> m[e]]]
    /\ spatial_index = NoBodies
    /\ events = EmptyBag
    /\ checked = FALSE
    /\ prev_events = <<>>
    /\ NothingElsewhere

Next ==
    \/ New
    \/ \E e \in Entities : \E v \in Velocities : ApplyVelocity(e, v)
    \/ CheckCollisions

Spec == Init /\ [][Next]_vars

\* a tick in which the bodies have been moved to wherever ApplyVelocity can
\* bring them, before check_collisions runs
InitPass ==
    /\ screen_size = <<Unit, Unit>>
    /\ max_depth \in Depths
    /\ nodes = StaticQuadTree_new(screen_size, max_depth)
    /\ NoQuery
    /\ \E m \in Markers : \E box2 \in Boxes :
       \E at \in [Entities -> { Vec2(x, y) : x \in XRange(screen_size), y \in YRange }] :
         bodies = [e \in Entities |->
                     [position |-> [start_frame |-> Vec2(0, 0), end_frame |-> at[e]],
                      bbox |-> IF e = 1 THEN AxisAlignedBoundingBox_new(2, 2) ELSE box2,
                      markers |-> m[e]]]
    /\ spatial_index = NoBodies
    /\ events = EmptyBag
    /\ checked = FALSE
    /\ prev_events = <<>>
    /\ NothingElsewhere

NextPass == CheckCollisions

SpecPass == InitPass /\ [][NextPass]_vars

----------------------------------------------------------------------------
(* The world of the bouncy example: 1024 x 768, depth QUAD_TREE_DEPTH,   *)
(* balls with a box of 8 x 8, looked at where they were spawned          *)

\* QUAD_TREE_DEPTH
SceneDepth == 4

SceneSize == <<1024, 768>>

SceneBox == AxisAlignedBoundingBox_new(8, 8)

\* where a ball is spawned: the centre, next to the centre with the edges
\* touching, inside one quadrant, and near two opposite corners
ScenePositions ==
    { Vec2(0, 0), Vec2(8, 0), Vec2(100, 100),
      Vec2(0 - 500, 0 - 380), Vec2(500, 380) }

SceneTargets == { as_rect(SceneBox, Vec2(0, 0)), as_rect(SceneBox, Vec2(500, 380)) }

InitScene ==
    /\ screen_size = SceneSize
    /\ max_depth = SceneDepth
    /\ nodes = <<>>
    /\ target \in SceneTargets
    /\ sn_path = <<>>
    /\ in_nodes = {}
    /\ called = {}
    /\ \E m \in Markers : \E p \in [Entities -> ScenePositions] :
         bodies = [e \in Entities |->
                     [position |-> PhysicsPosition_new(p[e]),
                      bbox |-> SceneBox,
                      markers |-> m[e]]]
    /\ spatial_index = NoBodies
    /\ events = EmptyBag
    /\ checked = FALSE
    /\ prev_events = <<>>
    /\ NothingElsewhere

\* the tree is built, then queried and used by the collision pass in any order
NextScene == New \/ SmallestNode \/ IntersectingNodes \/ CheckCollisions

SpecScene == InitScene /\ [][NextScene]_vars

----------------------------------------------------------------------------
(* Rect2D's operations on rectangles of their own *)

\* coordinates of the rectangles handed to Rect2D::new: multiples of 4, so
\* that the centre of a rectangle is exact and every point between an edge
\* and the centre has an integer of its own
RectCoords == {0 - 4, 0, 4}

\* every Rect2D::new(min, max) over the coordinates, well-formed or not
Rects ==
    { Rect2D_new(Vec2(x1, y1), Vec2(x2, y2)) :
        x1 \in RectCoords, y1 \in RectCoords, x2 \in RectCoords, y2 \in RectCoords }

\* largest distance between the two placed bodies, in tenths of a unit
MaxDistance == 85

\* the y of the two placed bodies, in tenths of a unit
PlacedYs == {0, 25}

\* two bodies with the box AxisAlignedBoundingBox::new(8.0, 8.0), lengths
\* in tenths of a unit, at (xa, y) and (xb, y): their rectangles
PlaceBodies(xa, xb, y) ==
    /\ rect_a = None
    /\ rect_b = None
    /\ LET bbox == AxisAlignedBoundingBox_new(80, 80) IN
       /\ rect_a' = as_rect(bbox, Vec2(xa, y))
       /\ rect_b' = as_rect(bbox, Vec2(xb, y))
    /\ placed' = [a |-> Vec2(xa, y), b |-> Vec2(xb, y)]
    /\ UNCHANGED <<coreVars, gameVars, rect_out>>

\* Rect2D::intersect, called on either rectangle with the other
Intersect ==
    /\ rect_a # None
    /\ rect_out = None
    /\ rect_out' = [op |-> "intersect",
                    a_b |-> intersect(rect_a, rect_b),
                    b_a |-> intersect(rect_b, rect_a)]
    /\ UNCHANGED <<coreVars, gameVars, rect_a, rect_b, placed>>

\* Rect2D::quadrants
Quadrants ==
    /\ rect_a # None
    /\ rect_out = None
    /\ rect_out' = [op |-> "quadrants", quadrants |-> quadrants(rect_a)]
    /\ UNCHANGED <<coreVars, gameVars, rect_a, rect_b, placed>>

InitRect ==
    /\ NoTree
    /\ NoQuery
    /\ NoScene
    /\ \/ rect_a \in Rects /\ rect_b \in Rects
       \/ rect_a = None /\ rect_b = None
    /\ placed = None
    /\ rect_out = None
    /\ NoGame

NextRect ==
    \/ \E xa \in {0} : \E xb \in (0 - MaxDistance)..MaxDistance : \E y \in PlacedYs :
         PlaceBodies(xa, xb, y)
    \/ Intersect
    \/ Quadrants

SpecRect == InitRect /\ [][NextRect]_vars

----------------------------------------------------------------------------
(* Mars Base One: the world builder thread and the frame loop            *)
(*                                                                       *)
(* A frame of the main thread runs the state transition asked for by the *)
(* frame before (OnExit, OnEnter), then the systems of the phase it is   *)
(* in.  A builder thread runs beside it; the two meet in WORLD_READY and *)
(* in the Mutex NEW_WORD.  Every step below is one access to them.       *)

\* largest number of visits to the WorldBuilding phase
MaxVisits == 8

\* the state outside the handoff
outsideHandoff == <<coreVars, rectVars, rngVars, assetVars, playVars>>

\* bevy_assets::run: every asset is loaded, the menu is asked for
loading_done ==
    /\ ~panicked
    /\ phase = "Loading" /\ next_state = "None"
    /\ next_state' = "MainMenu"
    /\ UNCHANGED <<phase, WORLD_READY, NEW_WORD, lock, builders, consumed, panicked,
                   outsideHandoff>>

\* the menus of GameStatePlugin: the main menu starts the game in
\* game_start_state, the game-over screen goes back to menu_state
game_menus_run ==
    /\ ~panicked
    /\ next_state = "None"
    /\ \/ /\ phase = "MainMenu"
          /\ Len(builders) < MaxVisits
          /\ next_state' = "WorldBuilding"
       \/ /\ phase = "GameOver"
          /\ next_state' = "MainMenu"
    /\ UNCHANGED <<phase, WORLD_READY, NEW_WORD, lock, builders, consumed, panicked,
                   outsideHandoff>>

\* spawn_builder forgetting to take WORLD_READY back
spawn_builder_no_reset ==
    /\ ~panicked
    /\ next_state = "WorldBuilding"
    /\ phase' = "WorldBuilding"
    /\ next_state' = "None"
    /\ builders' = Append(builders, "build")
    /\ UNCHANGED <<WORLD_READY, NEW_WORD, lock, consumed, panicked, outsideHandoff>>

\* the transition into WorldBuilding, OnEnter: spawn_builder
spawn_builder ==
    /\ ~panicked
    /\ next_state = "WorldBuilding"
    /\ phase' = "WorldBuilding"
    /\ next_state' = "None"
    /\ WORLD_READY' = FALSE
    /\ builders' = Append(builders, "build")
    /\ UNCHANGED <<NEW_WORD, lock, consumed, panicked, outsideHandoff>>

\* show_builder asking for Playing without looking at WORLD_READY
show_builder_without_flag ==
    /\ ~panicked
    /\ phase = "WorldBuilding" /\ next_state = "None"
    /\ next_state' = "Playing"
    /\ UNCHANGED <<phase, WORLD_READY, NEW_WORD, lock, builders, consumed, panicked,
                   outsideHandoff>>

\* show_builder, run in every frame of WorldBuilding
show_builder ==
    /\ ~panicked
    /\ phase = "WorldBuilding" /\ next_state = "None"
    /\ WORLD_READY
    /\ next_state' = "Playing"
    /\ UNCHANGED <<phase, WORLD_READY, NEW_WORD, lock, builders, consumed, panicked,
                   outsideHandoff>>

\* the transition into Playing, OnEnter: setup locks NEW_WORD (waiting while
\* a builder holds it) and runs lock.take().unwrap()
setup ==
    /\ ~panicked
    /\ next_state = "Playing"
    /\ lock = 0
    /\ phase' = "Playing"
    /\ next_state' = "None"
    /\ IF NEW_WORD = 0
       THEN panicked' = TRUE /\ UNCHANGED <<NEW_WORD, consumed>>
       ELSE /\ consumed' = Append(consumed, NEW_WORD)
            /\ NEW_WORD' = 0
            /\ UNCHANGED panicked
    /\ UNCHANGED <<WORLD_READY, lock, builders, outsideHandoff>>

\* end_game, or bounce at the loss of the last shield, asking for GameOver
game_over_asked ==
    /\ ~panicked
    /\ phase = "Playing" /\ next_state = "None"
    /\ next_state' = "GameOver"
    /\ UNCHANGED <<phase, WORLD_READY, NEW_WORD, lock, builders, consumed, panicked,
                   outsideHandoff>>

\* the transitions into MainMenu and GameOver
enter_menu ==
    /\ ~panicked
    /\ next_state \in {"MainMenu", "GameOver"}
    /\ phase' = next_state
    /\ next_state' = "None"
    /\ UNCHANGED <<WORLD_READY, NEW_WORD, lock, builders, consumed, panicked,
                   outsideHandoff>>

\* the t-th builder thread: World::new and the shuffle
build_world(t) ==
    /\ builders[t] = "build"
    /\ builders' = [builders EXCEPT ![t] = "lock"]
    /\ UNCHANGED <<phase, next_state, WORLD_READY, NEW_WORD, lock, consumed, panicked,
                   outsideHandoff>>

\* NEW_WORD.lock().unwrap()
lock_slot(t) ==
    /\ builders[t] = "lock"
    /\ lock = 0
    /\ lock' = t
    /\ builders' = [builders EXCEPT ![t] = "store"]
    /\ UNCHANGED <<phase, next_state, WORLD_READY, NEW_WORD, consumed, panicked,
                   outsideHandoff>>

\* *lock = Some(world)
store_world(t) ==
    /\ builders[t] = "store"
    /\ NEW_WORD' = t
    /\ builders' = [builders EXCEPT ![t] = "ready"]
    /\ UNCHANGED <<phase, next_state, WORLD_READY, lock, consumed, panicked,
                   outsideHandoff>>

\* WORLD_READY.store(true, Ordering::Relaxed)
store_ready(t) ==
    /\ builders[t] = "ready"
    /\ WORLD_READY' = TRUE
    /\ builders' = [builders EXCEPT ![t] = "unlock"]
    /\ UNCHANGED <<phase, next_state, NEW_WORD, lock, consumed, panicked,
                   outsideHandoff>>

\* the end of the closure drops the MutexGuard
drop_lock(t) ==
    /\ builders[t] = "unlock"
    /\ lock' = 0
    /\ builders' = [builders EXCEPT ![t] = "done"]
    /\ UNCHANGED <<phase, next_state, WORLD_READY, NEW_WORD, consumed, panicked,
                   outsideHandoff>>

InitHandoff ==
    /\ NoTree
    /\ NoQuery
    /\ NoScene
    /\ NoRects
    /\ NoHandoff
    /\ NoRng
    /\ NoAssets
    /\ NoPlay

NextHandoff ==
    \/ loading_done
    \/ game_menus_run
    \/ spawn_builder
    \/ show_builder
    \/ setup
    \/ game_over_asked
    \/ enter_menu
    \/ \E t \in DOMAIN builders :
         \/ build_world(t)
         \/ lock_slot(t)
         \/ store_world(t)
         \/ store_ready(t)
         \/ drop_lock(t)

SpecHandoff == InitHandoff /\ [][NextHandoff]_vars

----------------------------------------------------------------------------
(* RandomNumberGenerator                                                 *)
(*                                                                       *)
(* RngCore is a generator of the rand crate.  The model takes a linear   *)
(* congruential generator over RngModulus states in its place: a state,  *)
(* a step from state to state, and results computed from the state.      *)

\* number of states of the generator
RngModulus == 16

\* largest number of requests made to one generator
MaxRequests == 3

\* RngCore::seed_from_u64
seed_from_u64(seed) == (7 * seed + 1) % RngModulus

\* the generator moving on by one result
step(state) == (5 * state + 3) % RngModulus

\* Rng::random_range(lo..hi): the state after it and the value
random_range(state, lo, hi) ==
    [rng |-> step(state), value |-> lo + (step(state) % (hi - lo))]

\* Rng::random()
random(state) == [rng |-> step(state), value |-> step(state)]

\* RandomNumberGenerator::new, with the state the operating system gave
RandomNumberGenerator_new(os_rng) == [rng |-> os_rng]

\* RandomNumberGenerator::seeded
RandomNumberGenerator_seeded(seed) == [rng |-> seed_from_u64(seed)]

\* RandomNumberGenerator::range
range(self, lo, hi) == random_range(self.rng, lo, hi)

\* RandomNumberGenerator::next
next(self) == random(self.rng)

Generators == {1, 2}

Seeds == {1, 2}

\* how a generator was made: seeded(seed), or new() with what from_os_rng drew
Makers ==
    { [ctor |-> "seeded", arg |-> seed] : seed \in Seeds }
        \cup { [ctor |-> "new", arg |-> os_rng] : os_rng \in 0..(RngModulus - 1) }

Make(maker) ==
    IF maker.ctor = "seeded"
    THEN RandomNumberGenerator_seeded(maker.arg)
    ELSE RandomNumberGenerator_new(maker.arg)

\* the requests of the games and of the tests: range(1..10), a range over
\* all values, and next()
Requests ==
    { [kind |-> "range", lo |-> 1, hi |-> 10],
      [kind |-> "range", lo |-> 0, hi |-> RngModulus - 1],
      [kind |-> "next", lo |-> 0, hi |-> 0] }

\* the state outside the generators
outsideRng == <<coreVars, rectVars, handoffVars, assetVars, playVars>>

\* a request served by the generator of generator 1, whoever is asked
Request_shared(g, r) ==
    /\ Len(rng_out[g]) < MaxRequests
    /\ IF Len(rng_out[g]) < Len(requests)
       THEN r = requests[Len(rng_out[g]) + 1] /\ UNCHANGED requests
       ELSE requests' = Append(requests, r)
    /\ LET res == IF r.kind = "range" THEN range(rng[1], r.lo, r.hi) ELSE next(rng[1]) IN
       /\ rng' = [rng EXCEPT ![1].rng = res.rng]
       /\ rng_out' = [rng_out EXCEPT ![g] = Append(@, res.value)]
    /\ UNCHANGED <<rng_made, outsideRng>>

\* generator g serves the request r: the next request of the sequence both
\* generators are given
Request(g, r) ==
    /\ Len(rng_out[g]) < MaxRequests
    /\ IF Len(rng_out[g]) < Len(requests)
       THEN r = requests[Len(rng_out[g]) + 1] /\ UNCHANGED requests
       ELSE requests' = Append(requests, r)
    /\ LET res == IF r.kind = "range" THEN range(rng[g], r.lo, r.hi) ELSE next(rng[g]) IN
       /\ rng' = [rng EXCEPT ![g].rng = res.rng]
       /\ rng_out' = [rng_out EXCEPT ![g] = Append(@, res.value)]
    /\ UNCHANGED <<rng_made, outsideRng>>

InitRng ==
    /\ NoTree
    /\ NoQuery
    /\ NoScene
    /\ NoRects
    /\ NoHandoff
    /\ NoAssets
    /\ NoPlay
    /\ rng_made \in [Generators -> Makers]
    /\ rng = [g \in Generators |-> Make(rng_made[g])]
    /\ requests = <<>>
    /\ rng_out = [g \in Generators |-> <<>>]

NextRng == \E g \in Generators : \E r \in Requests : Request(g, r)

SpecRng == InitRng /\ [][NextRng]_vars

----------------------------------------------------------------------------
(* AssetManager *)

\* largest number of add_ calls on one manager
MaxAdds == 2

\* the files of the assets directory
AssetsDir == {"existing.png", "ship.png"}

Filenames == AssetsDir \cup {"non-existing.png"}

Tags == {"tag", "ship"}

\* (sprite_width, sprite_height, sprites_x, sprites_y) of a sprite sheet
SheetLayouts == { <<32, 32, 4, 1>> }

\* AssetManager::new: the asset_list
AssetManager_new ==
    << <<"main_menu", "main_menu.png", [type |-> "Image"]>>,
       <<"game_over", "game_over.png", [type |-> "Image"]>> >>

asset_exists(filename) == filename \in AssetsDir

\* the state outside the asset manager
outsideAssets == <<coreVars, rectVars, handoffVars, rngVars, playVars>>

\* an add_ call pushing its entry before it looks for the file
add_unchecked(op, tag, filename, asset_type) ==
    /\ asset_result # "Err"
    /\ asset_adds < MaxAdds
    /\ asset_adds' = asset_adds + 1
    /\ asset_call' = [op |-> op, tag |-> tag, filename |-> filename]
    /\ asset_list' = Append(asset_list, <<tag, filename, asset_type>>)
    /\ asset_result' = IF asset_exists(filename) THEN "Ok" ELSE "Err"
    /\ UNCHANGED outsideAssets

\* an add_ call on the manager the call before it returned
add(op, tag, filename, asset_type) ==
    /\ asset_result # "Err"
    /\ asset_adds < MaxAdds
    /\ asset_adds' = asset_adds + 1
    /\ asset_call' = [op |-> op, tag |-> tag, filename |-> filename]
    /\ IF asset_exists(filename)
       THEN /\ asset_list' = Append(asset_list, <<tag, filename, asset_type>>)
            /\ asset_result' = "Ok"
       ELSE /\ asset_result' = "Err"
            /\ UNCHANGED asset_list
    /\ UNCHANGED outsideAssets

add_image(tag, filename) == add("add_image", tag, filename, [type |-> "Image"])

add_sound(tag, filename) == add("add_sound", tag, filename, [type |-> "Sound"])

add_sprite_sheet(tag, filename, sprite_width, sprite_height, sprites_x, sprites_y) ==
    add("add_sprite_sheet", tag, filename,
        [type |-> "SpriteSheet", tile_size |-> Vec2(sprite_width, sprite_height),
         sprites_x |-> sprites_x, sprites_y |-> sprites_y])

InitAssets ==
    /\ NoTree
    /\ NoQuery
    /\ NoScene
    /\ NoRects
    /\ NoHandoff
    /\ NoRng
    /\ NoPlay
    /\ asset_list = AssetManager_new
    /\ asset_result = "None"
    /\ asset_call = None
    /\ asset_adds = 0

NextAssets ==
    \E tag \in Tags : \E filename \in Filenames :
        \/ add_image(tag, filename)
        \/ add_sound(tag, filename)
        \/ \E l \in SheetLayouts : add_sprite_sheet(tag, filename, l[1], l[2], l[3], l[4])

SpecAssets == InitAssets /\ [][NextAssets]_vars

----------------------------------------------------------------------------
(* AnimationCycle and cycle_animations, with the animations of Flappy     *)
(* Dragon                                                                 *)

AnimationFrame_new(sprite, delay_ms, action) ==
    [sprite_index |-> sprite, delay_ms |-> delay_ms, action |-> action]

NextFrame == [option |-> "NextFrame"]

GoToFrame(frame) == [option |-> "GoToFrame", frame |-> frame]

SwitchToAnimation(other) == [option |-> "SwitchToAnimation", other |-> other]

PlaySound(tag) == [option |-> "PlaySound", tag |-> tag]

\* the Animations resource of Flappy Dragon, frames numbered from 0 in the
\* source: frames[i] of the source is frames[i + 1] here
Animations ==
    [ tag \in {"Straight and Level", "Flapping"} |->
        IF tag = "Straight and Level"
        THEN << AnimationFrame_new(2, 500, <<NextFrame>>),
                AnimationFrame_new(3, 500, <<GoToFrame(0)>>) >>
        ELSE << AnimationFrame_new(0, 66, <<NextFrame, PlaySound("flap")>>),
                AnimationFrame_new(1, 66, <<NextFrame>>),
                AnimationFrame_new(2, 66, <<NextFrame>>),
                AnimationFrame_new(3, 66, <<NextFrame>>),
                AnimationFrame_new(2, 66, <<NextFrame>>),
                AnimationFrame_new(1, 66, <<SwitchToAnimation("Straight and Level")>>) >> ]

\* the animation tags a caller switches to
AnimationTags == DOMAIN Animations

\* time.delta() in ms of a frame of the game
FrameTimes == {17, 34}

AnimationCycle_new(tag) == [animation_tag |-> tag, current_frame |-> 0, timer |-> 0]

\* switch() starting the animation anew whatever its tag
switch_restarting(self, new) ==
    [animation_tag |-> new, current_frame |-> 0, timer |-> 0]

\* AnimationCycle::switch
switch(self, new) ==
    IF new # self.animation_tag
    THEN [animation_tag |-> new, current_frame |-> 0, timer |-> 0]
    ELSE self

\* one round of "for action in current_frame.action.iter()" and the rounds
\* after it: st is the animation, the sprite index and the sound played
RECURSIVE run_actions(_, _, _, _)
run_actions(cycle, actions, k, st) ==
    IF k > Len(actions)
    THEN st
    ELSE LET action == actions[k]
             a == st.animation
             after ==
                 IF action.option = "NextFrame"
                 THEN [st EXCEPT !.animation.current_frame = a.current_frame + 1]
                 ELSE IF action.option = "SwitchToAnimation"
                 THEN [st EXCEPT !.animation = switch(a, action.other)]
                 ELSE IF action.option = "GoToFrame"
                 THEN [st EXCEPT !.animation.current_frame = action.frame]
                 ELSE [st EXCEPT !.sound = action.tag]
             shown == [after EXCEPT !.sprite =
                          cycle[after.animation.current_frame + 1].sprite_index]
         IN  run_actions(cycle, actions, k + 1, shown)

\* the state outside the animated entity
outsideAnimation == <<coreVars, rectVars, handoffVars, rngVars, assetVars, bouncyVars,
                      clockVars, marsVars, scoreVars,
                      impulseVars>>

\* the system cycle_animations on the one animated entity, ms after the
\* frame before
cycle_animations(ms) ==
    /\ animation # None
    /\ LET timed == [animation EXCEPT !.timer = @ + ms]
           cycle == Animations[timed.animation_tag]
           current_frame == cycle[timed.current_frame + 1]
           st == IF timed.timer > current_frame.delay_ms
                 THEN run_actions(cycle, current_frame.action, 1,
                          [animation |-> [timed EXCEPT !.timer = 0],
                           sprite |-> sprite_index, sound |-> "None"])
                 ELSE [animation |-> timed, sprite |-> sprite_index, sound |-> "None"]
       IN  /\ timed.animation_tag \in DOMAIN Animations
           /\ animation' = st.animation
           /\ sprite_index' = st.sprite
           /\ anim_out' = [impulse |-> None, sound |-> st.sound]
    /\ anim_call' = [op |-> "cycle_animations", ms |-> ms]
    /\ UNCHANGED outsideAnimation

\* animation.switch(new) called by a system of the game
Switch(new) ==
    /\ animation # None
    /\ animation' = switch(animation, new)
    /\ anim_call' = [op |-> "switch", new |-> new]
    /\ anim_out' = [impulse |-> None, sound |-> "None"]
    /\ UNCHANGED <<sprite_index, outsideAnimation>>

\* the entity of Flappy
Flappy == 1

\* the system flap of Flappy Dragon, with the space key pressed or not
flap(pressed) ==
    /\ animation # None
    /\ anim_call' = [op |-> "flap", pressed |-> pressed]
    /\ IF pressed
       THEN /\ anim_out' = [impulse |-> [target |-> Flappy, amount |-> <<0, 1, 0>>,
                                         absolute |-> FALSE, source |-> 0],
                            sound |-> "None"]
            /\ animation' = switch(animation, "Flapping")
       ELSE /\ anim_out' = [impulse |-> None, sound |-> "None"]
            /\ UNCHANGED animation
    /\ UNCHANGED <<sprite_index, outsideAnimation>>

\* Flappy as setup spawns it
InitAnimation ==
    /\ NoTree
    /\ NoQuery
    /\ NoScene
    /\ NoRects
    /\ NoHandoff
    /\ NoRng
    /\ NoAssets
    /\ NoBouncy
    /\ NoImpulses
    /\ NoClock
    /\ NoMars
    /\ NoScores
    /\ animation = AnimationCycle_new("Straight and Level")
    /\ sprite_index = 0
    /\ anim_call = None
    /\ anim_out = None

NextAnimation ==
    \/ \E ms \in FrameTimes : cycle_animations(ms)
    \/ \E new \in AnimationTags : Switch(new)
    \/ \E pressed \in BOOLEAN : flap(pressed)

SpecAnimation == InitAnimation /\ [][NextAnimation]_vars

----------------------------------------------------------------------------
(* The collisions system of the bouncy example                            *)
(*                                                                        *)
(* Its spatial index keeps the source's Vec per node: a bucket is the     *)
(* sequence of its (entity, bbox) entries in the order they were pushed,  *)
(* which is the order the query iterates the entities in.                 *)

BallEntities == {1, 2, 3}

\* the box spawn_bouncies gives a ball
BallBox == AxisAlignedBoundingBox_new(8, 8)

\* where the balls are looked at: over the centre lines of the world, inside
\* one leaf next to the centre, in the leaf beside it, on the right edge of
\* the world and beyond it
BallPositions ==
    { Vec2(0, 0), Vec2(6, 6), Vec2(12, 6), Vec2(66, 6),
      Vec2(510, 6), Vec2(518, 6), Vec2(524, 6) }

\* the orders in which query.iter() can hand out the entities
QueryOrders ==
    { order \in [1..Cardinality(BallEntities) -> BallEntities] :
        \A i, j \in DOMAIN order : order[i] = order[j] => i = j }

\* bbox.as_rect(transform.translation.truncate()) of ball e
BallRect(bs, e) == as_rect(bs[e].bbox, bs[e].translation)

\* the first loop pushing a body to the bucket of its smallest node only
push_smallest(ns, bs, order) ==
    LET queried == { order[k] : k \in DOMAIN order }
        located == { <<e, smallest_node(ns, BallRect(bs, e))>> : e \in queried }
    IN  [ node \in { at[2] : at \in located } |->
            LET here == SelectSeq(order, LAMBDA e : <<e, node>> \in located)
            IN  [ k \in DOMAIN here |-> [entity |-> here[k], bbox |-> BallRect(bs, here[k])] ] ]

\* the first loop: every body is pushed to the bucket of every node its box
\* intersects, in the order of the query
push_all(ns, bs, order) ==
    LET queried == { order[k] : k \in DOMAIN order }
        located == { <<e, intersecting_nodes(ns, BallRect(bs, e))>> : e \in queried }
        in_nodes_of(e) == (CHOOSE at \in located : at[1] = e)[2]
    IN  [ node \in UNION { at[2] : at \in located } |->
            LET here == SelectSeq(order, LAMBDA e : node \in in_nodes_of(e))
            IN  [ k \in DOMAIN here |-> [entity |-> here[k], bbox |-> BallRect(bs, here[k])] ] ]

\* entities_here.iter().filter(..).find(..) looking at every candidate,
\* whatever it has found before
find_all(candidates, k, box_a) ==
    [ j \in 1..(Len(candidates) - k + 1) |-> candidates[j + k - 1].entity ]

\* entities_here.iter().filter(..).find(..) from the k-th candidate on: the
\* entities the closure of find is called for, the last of them the match
RECURSIVE find(_, _, _)
find(candidates, k, box_a) ==
    IF k > Len(candidates)
    THEN <<>>
    ELSE IF intersect(box_a, candidates[k].bbox)
         THEN <<candidates[k].entity>>
         ELSE <<candidates[k].entity>> \o find(candidates, k + 1, box_a)

\* what the search of one body calls find's closure for, in order
search(ns, index, bs, entity) ==
    LET node == smallest_node(ns, BallRect(bs, entity)) IN
    IF node \in DOMAIN index
    THEN find(SelectSeq(index[node], LAMBDA entry : entry.entity # entity),
              1, BallRect(bs, entity))
    ELSE <<>>

\* bounce_on_collision: the Impulse it writes.  The amount is the normalized
\* difference of the two translations divided by 8; the model keeps the
\* difference and the divisor.
bounce_on_collision(entity, ball_a, ball_b) ==
    [target |-> entity,
     amount |-> [normalized |-> Vec2(ball_a.x - ball_b.x, ball_a.y - ball_b.y),
                 divided_by |-> 8],
     absolute |-> FALSE,
     source |-> 0]

\* the impulses the search of one body writes, given what it tested
bounces(bs, entity, seen) ==
    LET hits == SelectSeq(seen, LAMBDA b : intersect(BallRect(bs, entity), BallRect(bs, b)))
    IN  [ k \in DOMAIN hits |->
            bounce_on_collision(entity, bs[entity].translation, bs[hits[k]].translation) ]

RECURSIVE SumLen(_, _)
SumLen(f, S) ==
    IF S = {} THEN 0
    ELSE LET e == CHOOSE x \in S : TRUE IN Len(f[e]) + SumLen(f, S \ {e})

\* the state outside the balls
outsideBouncy == <<queryVars, collisionVars, rectVars, handoffVars, rngVars,
                   clockVars, marsVars, scoreVars,
                   assetVars, animationVars, impulseVars>>

\* the system collisions, the query handing out the entities in this order
collisions(order) ==
    /\ nodes # <<>>
    /\ LET index == push_all(nodes, balls, order)
           seen == [ e \in BallEntities |-> search(nodes, index, balls, e) ]
       IN  /\ ball_index' = index
           /\ tested' = seen
           /\ bounced' = [ e \in BallEntities |-> bounces(balls, e, seen[e]) ]
           /\ checks' = SumLen(seen, BallEntities)
    /\ UNCHANGED <<treeVars, balls, outsideBouncy>>

\* setup has built the tree; the balls are where the frames before have
\* brought them
InitBouncy ==
    /\ screen_size = SceneSize
    /\ max_depth = SceneDepth
    /\ nodes = StaticQuadTree_new(SceneSize, SceneDepth)
    /\ NoQuery
    /\ NoScene
    /\ NoRects
    /\ NoHandoff
    /\ NoRng
    /\ NoAssets
    /\ NoAnimation
    /\ NoImpulses
    /\ NoClock
    /\ NoMars
    /\ NoScores
    /\ balls \in [BallEntities -> [translation : BallPositions, bbox : {BallBox}]]
    /\ ball_index = <<>>
    /\ tested = <<>>
    /\ bounced = <<>>
    /\ checks = 0

NextBouncy == \E order \in QueryOrders : collisions(order)

SpecBouncy == InitBouncy /\ [][NextBouncy]_vars

----------------------------------------------------------------------------
(* sum_impulses                                                           *)
(*                                                                        *)
(* An amount is a Vec3 of f32 in the source; the model takes one of its   *)
(* components, a small integer, whose sums are exact in f32.              *)

\* largest number of Impulse events one run of sum_impulses reads
MaxImpulses == 3

\* the entities that have a Velocity
Movers == {1, 2}

\* the entities an Impulse can name: the Movers and one without a Velocity
ImpulseTargets == Movers \cup {3}

Sources == {0, 1}

Amounts == {1, 2}

Impulse(entity, amount, absolute, source) ==
    [target |-> entity, amount |-> amount, absolute |-> absolute, source |-> source]

Impulses ==
    { Impulse(t, m, a, s) : t \in ImpulseTargets, m \in Amounts, a \in BOOLEAN, s \in Sources }

\* the Velocity entity e has before the run
StartVelocity(e) == 4 * e

\* the first loop keying the map by source and target
dedupe_by_source_and_target(read) ==
    LET keys == { <<read[k].source, read[k].target>> : k \in DOMAIN read } IN
    { CHOOSE k \in DOMAIN read :
         /\ <<read[k].source, read[k].target>> = key
         /\ \A j \in DOMAIN read :
               <<read[j].source, read[j].target>> = key => j <= k
      : key \in keys }

\* the first loop: dedupe_by_source.insert(impulse.source, impulse) for the
\* events in the order read, an insert replacing the value of its key.  The
\* map's values are references to the events: here their places in read.
dedupe_by_source(read) ==
    LET keys == { read[k].source : k \in DOMAIN read } IN
    { CHOOSE k \in DOMAIN read :
         /\ read[k].source = source
         /\ \A j \in DOMAIN read : read[j].source = source => j <= k
      : source \in keys }

\* the second loop from its k-th round on, the map handing out its values
\* in this order; st is the velocities, the set absolute and the impulses
\* applied so far
RECURSIVE apply_impulses(_, _, _, _)
apply_impulses(read, order, k, st) ==
    IF k > Len(order)
    THEN st
    ELSE LET impulse == read[order[k]]
             after ==
                 IF impulse.target \notin DOMAIN st.velocities
                 THEN st
                 ELSE IF impulse.target \in st.absolute
                 THEN st
                 ELSE IF impulse.absolute
                 THEN [velocities |-> [st.velocities EXCEPT ![impulse.target] = impulse.amount],
                       absolute |-> st.absolute \cup {impulse.target},
                       applied |-> Append(st.applied, order[k])]
                 ELSE [velocities |-> [st.velocities EXCEPT ![impulse.target] = @ + impulse.amount],
                       absolute |-> st.absolute,
                       applied |-> Append(st.applied, order[k])]
         IN  apply_impulses(read, order, k + 1, after)

\* the orders in which a HashMap can hand out the values kept
IterationOrders(kept) ==
    { order \in [1..Cardinality(kept) -> kept] :
        \A i, j \in DOMAIN order : order[i] = order[j] => i = j }

\* the state outside the impulses
outsideImpulses == <<coreVars, rectVars, handoffVars, rngVars, assetVars,
                     clockVars, marsVars, scoreVars,
                     animationVars, bouncyVars>>

\* the system sum_impulses: it reads every event written since its last run
sum_impulses ==
    /\ velocities # <<>>
    /\ LET kept == dedupe_by_source(impulses) IN
       \E order \in IterationOrders(kept) :
          LET st == apply_impulses(impulses, order, 1,
                        [velocities |-> velocities, absolute |-> {}, applied |-> <<>>])
          IN  /\ velocities' = st.velocities
              /\ impulse_run' = [read |-> impulses, before |-> velocities,
                                 order |-> order, applied |-> st.applied,
                                 absolute |-> st.absolute]
    /\ impulses' = <<>>
    /\ UNCHANGED outsideImpulses

\* the systems of a frame have written their impulses
InitImpulses ==
    /\ NoTree
    /\ NoQuery
    /\ NoScene
    /\ NoRects
    /\ NoHandoff
    /\ NoRng
    /\ NoAssets
    /\ NoAnimation
    /\ NoBouncy
    /\ NoClock
    /\ NoMars
    /\ NoScores
    /\ \E n \in 0..MaxImpulses : impulses \in [1..n -> Impulses]
    /\ velocities = [e \in Movers |-> StartVelocity(e)]
    /\ impulse_run = <<>>

NextImpulses == sum_impulses

SpecImpulses == InitImpulses /\ [][NextImpulses]_vars

----------------------------------------------------------------------------
(* physics_clock and apply_velocity                                       *)
(*                                                                        *)
(* Transform.translation is an f32 in the source; the model keeps it in   *)
(* units of 1 / PHYSICS_TICK_TIME, in which the interpolation is exact.   *)

\* PHYSICS_TICK_TIME, in ms
PHYSICS_TICK_TIME == 33

\* largest number of PhysicsTick events written
MaxTicks == 3

\* what time.delta().as_millis() gives in a frame
Deltas == {0, 1, 16, 17, 32, 33, 34, 100}

\* the entities that have a PhysicsPosition, a Transform and a Velocity
PhysicsBodies == {1, 2}

\* their Velocity
BodyVelocity(e) == IF e = 1 THEN Vec2(1, 0) ELSE Vec2(0 - 2, 3)

\* the systems of the physics in the run list of a phase; no order is
\* declared between them
PhysicsSystems == {"physics_clock", "apply_velocity"}

\* a system of the frame has run; after the last one the next frame begins
frame_after(ran, system) ==
    IF ran \cup {system} = PhysicsSystems THEN {} ELSE ran \cup {system}

\* an entity spawned with PhysicsPosition::new(start) and a Transform at start
spawn_body(start) ==
    [start_frame |-> PhysicsPosition_new(start).start_frame,
     end_frame |-> PhysicsPosition_new(start).end_frame,
     translation |-> Vec2(PHYSICS_TICK_TIME * start.x, PHYSICS_TICK_TIME * start.y)]

\* PhysicsPosition::interpolate at t = elapsed / PHYSICS_TICK_TIME
interpolate(self, elapsed) ==
    Vec2(PHYSICS_TICK_TIME * self.start_frame.x
             + (self.end_frame.x - self.start_frame.x) * elapsed,
         PHYSICS_TICK_TIME * self.start_frame.y
             + (self.end_frame.y - self.start_frame.y) * elapsed)

\* a clock that ticks only when more than a tick's time has passed
tick_overdue(elapsed) == elapsed > PHYSICS_TICK_TIME

\* clock.0 >= PHYSICS_TICK_TIME
tick_due(elapsed) == elapsed >= PHYSICS_TICK_TIME

\* the ticks written so far: the first body moves by one in x per tick
TicksWritten == physics_position[1].end_frame.x + on_tick

\* the state outside the physics clock
outsideClock == <<coreVars, rectVars, handoffVars, rngVars, assetVars,
                  animationVars, bouncyVars, impulseVars, marsVars, scoreVars>>

\* the system physics_clock in a frame that took ms milliseconds
physics_clock(ms) ==
    /\ "physics_clock" \notin clock_ran
    /\ LET elapsed == clock + ms IN
       IF tick_due(elapsed)
       THEN /\ TicksWritten < MaxTicks
            /\ clock' = 0
            /\ physics_position' =
                  [e \in DOMAIN physics_position |->
                     LET pos == physics_position[e] IN
                     [start_frame |-> pos.end_frame, end_frame |-> pos.end_frame,
                      translation |-> Vec2(PHYSICS_TICK_TIME * pos.end_frame.x,
                                           PHYSICS_TICK_TIME * pos.end_frame.y)]]
            /\ on_tick' = on_tick + 1
       ELSE /\ clock' = elapsed
            /\ physics_position' =
                  [e \in DOMAIN physics_position |->
                     [physics_position[e] EXCEPT
                        !.translation = interpolate(physics_position[e], elapsed)]]
            /\ on_tick' = on_tick
    /\ clock_call' = [ms |-> ms, clock |-> clock, left |-> clock',
                      ticks |-> on_tick' - on_tick,
                      before |-> physics_position, after |-> physics_position']
    /\ clock_ran' = frame_after(clock_ran, "physics_clock")
    /\ UNCHANGED outsideClock

\* the system apply_velocity: it reads every tick written since its last run
apply_velocity ==
    /\ "apply_velocity" \notin clock_ran
    /\ physics_position' =
          [e \in DOMAIN physics_position |->
             [physics_position[e] EXCEPT
                !.end_frame = Vec2(@.x + on_tick * BodyVelocity(e).x,
                                   @.y + on_tick * BodyVelocity(e).y)]]
    /\ on_tick' = 0
    /\ clock_ran' = frame_after(clock_ran, "apply_velocity")
    /\ UNCHANGED <<clock, clock_call, outsideClock>>

\* the bodies are spawned and the first frame begins
InitClock ==
    /\ NoTree
    /\ NoQuery
    /\ NoScene
    /\ NoRects
    /\ NoHandoff
    /\ NoRng
    /\ NoAssets
    /\ NoAnimation
    /\ NoBouncy
    /\ NoImpulses
    /\ NoMars
    /\ NoScores
    /\ clock = 0
    /\ physics_position = [e \in PhysicsBodies |-> spawn_body(Vec2(0, 10 * e))]
    /\ on_tick = 0
    /\ clock_ran = {}
    /\ clock_call = <<>>

NextClock ==
    \/ \E ms \in Deltas : physics_clock(ms)
    \/ apply_velocity

SpecClock == InitClock /\ [][NextClock]_vars

----------------------------------------------------------------------------
(* Mars Base One while Playing: the miners saved and end_game             *)
(*                                                                        *)
(* Which miners the player touches in a frame is decided by               *)
(* check_collisions::<Player, Miner> from their positions; here it is an  *)
(* input of the frame.  Commands are applied at the end of the frame,     *)
(* since no order is declared between the systems.                        *)

\* the Miner entities of the world
MinerEntities == {1, 2}

\* Player.shields and Player.fuel when the first miner is met
ShieldLevels == {0, 500}
FuelLevels == {1000, 10000}

\* the systems of Playing that save miners and end the game; no order is
\* declared between them
MarsSystems == {"end_game", "check_collisions", "collect_and_despawn_game_element"}

\* the Player spawned by setup
Player_new(shields, fuel) ==
    [miners_saved |-> 0, shields |-> shields, fuel |-> fuel, score |-> 0]

\* OnCollect for Miner; the score stays far below u32::MAX
Miner_effect(p) ==
    LET saved == [p EXCEPT !.miners_saved = @ + 1, !.score = @ + 1000]
        shielded == IF saved.shields > 0
                    THEN [saved EXCEPT !.score = @ + saved.shields]
                    ELSE saved
    IN  IF shielded.fuel > 1000
        THEN [shielded EXCEPT !.score = @ + shielded.fuel]
        ELSE shielded

\* the loop of collect_and_despawn_game_element over the collected entities,
\* from the k-th on
RECURSIVE collect(_, _, _, _)
collect(collected, k, alive, st) ==
    IF k > Len(collected)
    THEN st
    ELSE collect(collected, k + 1, alive,
                 [player |-> Miner_effect(st.player),
                  despawns |-> IF collected[k] \in alive
                               THEN st.despawns \cup {collected[k]}
                               ELSE st.despawns])

\* the events check_collisions writes for the miners touched
RECURSIVE collision_events_of(_)
collision_events_of(touched) ==
    IF touched = {}
    THEN <<>>
    ELSE LET m == CHOOSE e \in touched : \A o \in touched : e <= o
         IN  <<m>> \o collision_events_of(touched \ {m})

\* player.miners_saved == 1
miner_saved(p) == p.miners_saved = 1

\* the state outside Mars Base One while Playing
outsideMars == <<coreVars, rectVars, rngVars, assetVars, animationVars, bouncyVars,
                 impulseVars, clockVars, scoreVars,
                 WORLD_READY, NEW_WORD, lock, builders, consumed, panicked>>

\* a system of Playing may run: the phase is Playing, a transition asked for
\* is made before the systems of the next frame, and each runs once a frame
MayRun(system) ==
    /\ phase = "Playing"
    /\ system \notin mars_ran
    /\ ~(mars_ran = {} /\ next_state # "None")

\* a system has run, leaving the despawns and bursts given; after the last
\* system of the frame the commands are applied and the events read
ran_system(system, queued, burst_count) ==
    IF mars_ran \cup {system} = MarsSystems
    THEN /\ mars_ran' = {}
         /\ miners' = miners \ queued
         /\ despawns' = {}
         /\ bursts' = 0
    ELSE /\ mars_ran' = mars_ran \cup {system}
         /\ miners' = miners
         /\ despawns' = queued
         /\ bursts' = burst_count

\* the system end_game
end_game ==
    /\ MayRun("end_game")
    /\ next_state' = IF player # <<>> /\ miner_saved(player) THEN "GameOver" ELSE next_state
    /\ end_game_run' = IF player = <<>>
                       THEN end_game_run
                       ELSE [miners_saved |-> player.miners_saved, asked |-> next_state']
    /\ ran_system("end_game", despawns, bursts)
    /\ UNCHANGED <<phase, player, on_miner, final_score, outsideMars>>

\* the system check_collisions::<Player, Miner> in a frame in which the
\* player overlaps the miners touched
check_collisions_Player_Miner(touched) ==
    /\ MayRun("check_collisions")
    /\ touched \subseteq miners
    /\ on_miner' = on_miner \o collision_events_of(touched)
    /\ ran_system("check_collisions", despawns, bursts)
    /\ UNCHANGED <<phase, next_state, player, final_score, end_game_run, outsideMars>>

\* the system collect_and_despawn_game_element::<Miner, Green>
collect_and_despawn_game_element ==
    /\ MayRun("collect_and_despawn_game_element")
    /\ on_miner' = <<>>
    /\ IF player = <<>>
       THEN /\ player' = player
            /\ ran_system("collect_and_despawn_game_element", despawns, bursts)
       ELSE LET st == collect(on_miner, 1, miners, [player |-> player, despawns |-> despawns])
            IN  /\ player' = st.player
                /\ ran_system("collect_and_despawn_game_element", st.despawns,
                              IF on_miner # <<>> THEN bursts + 1 ELSE bursts)
    /\ UNCHANGED <<phase, next_state, final_score, end_game_run, outsideMars>>

\* the transition out of Playing, OnExit: submit_score and
\* cleanup::<GameElement>
leave_playing ==
    /\ phase = "Playing"
    /\ mars_ran = {}
    /\ next_state = "GameOver"
    /\ phase' = "GameOver"
    /\ next_state' = "None"
    /\ final_score' = IF player = <<>> THEN final_score ELSE Append(final_score, player.score)
    /\ player' = <<>>
    /\ miners' = {}
    /\ UNCHANGED <<on_miner, despawns, bursts, mars_ran, end_game_run, outsideMars>>

\* setup has spawned the player and the miners, and Playing begins
InitMars ==
    /\ NoTree
    /\ NoQuery
    /\ NoScene
    /\ NoRects
    /\ NoRng
    /\ NoAssets
    /\ NoAnimation
    /\ NoBouncy
    /\ NoImpulses
    /\ NoClock
    /\ NoScores
    /\ phase = "Playing"
    /\ next_state = "None"
    /\ WORLD_READY = TRUE
    /\ NEW_WORD = 0
    /\ lock = 0
    /\ builders = <<"done">>
    /\ consumed = <<1>>
    /\ panicked = FALSE
    /\ \E shields \in ShieldLevels : \E fuel \in FuelLevels :
          player = Player_new(shields, fuel)
    /\ miners = MinerEntities
    /\ on_miner = <<>>
    /\ despawns = {}
    /\ bursts = 0
    /\ final_score = <<>>
    /\ mars_ran = {}
    /\ end_game_run = <<>>

NextMars ==
    \/ end_game
    \/ \E touched \in SUBSET MinerEntities : check_collisions_Player_Miner(touched)
    \/ collect_and_despawn_game_element
    \/ leave_playing

SpecMars == InitMars /\ [][NextMars]_vars

----------------------------------------------------------------------------
(* The high-score server                                                  *)
(*                                                                        *)
(* Every request is served by a task of its own; the tasks share the      *)
(* table behind a Mutex.  add_entry runs with the lock held, step by      *)
(* step.  The name of an entry plays no part in the order of the table.   *)

\* entries kept by add_entry: truncate(10)
TableSize == 10

\* largest number of requests received
MaxSubmissions == 12

\* the tasks serving requests at the same time
Handlers == {1, 2}

Scores == {1, 2, 3}

Names == {"ann"}

\* HighScoreEntry
HighScoreEntry(name, score) == [name |-> name, score |-> score]

\* HighScoreTable::new with no file high_scores.json
HighScoreTable_new == <<>>

\* Vec::push
push(es, entry) == Append(es, entry)

\* the largest score of the entries
top_score(es) == CHOOSE s \in { es[i].score : i \in DOMAIN es } :
                    \A i \in DOMAIN es : es[i].score <= s

\* the smallest score of the entries
bottom_score(es) == CHOOSE s \in { es[i].score : i \in DOMAIN es } :
                       \A i \in DOMAIN es : s <= es[i].score

\* a sort that puts the lowest score first
RECURSIVE sort_by_score_ascending(_)
sort_by_score_ascending(es) ==
    IF es = <<>>
    THEN <<>>
    ELSE LET low == bottom_score(es) IN
         SelectSeq(es, LAMBDA e : e.score = low)
             \o sort_by_score_ascending(SelectSeq(es, LAMBDA e : e.score # low))

\* entries.sort_by(|a, b| b.score.cmp(&a.score)): a stable sort, the highest
\* score first
RECURSIVE sort_by(_)
sort_by(es) ==
    IF es = <<>>
    THEN <<>>
    ELSE LET top == top_score(es) IN
         SelectSeq(es, LAMBDA e : e.score = top)
             \o sort_by(SelectSeq(es, LAMBDA e : e.score # top))

\* Vec::truncate
truncate(es, len) == IF Len(es) > len THEN SubSeq(es, 1, len) ELSE es

\* the requests received and not yet answered, and those answered
Received == BagCardinality(submitted)
              + Cardinality({ h \in Handlers : handlers[h].pc # "idle" })

\* the state outside the high-score server
outsideScores == <<coreVars, rectVars, handoffVars, rngVars, assetVars,
                   animationVars, bouncyVars, impulseVars, clockVars, marsVars>>

\* POST /submit-score arrives and submit_score starts: the Json extractor
\* has parsed the entry
receive(h, entry) ==
    /\ handlers[h].pc = "idle"
    /\ Received < MaxSubmissions
    /\ handlers' = [handlers EXCEPT ![h] = [pc |-> "lock", entry |-> entry]]
    /\ UNCHANGED <<table, high_scores_file, table_lock, submitted, outsideScores>>

\* table.lock().await: the task waits while another holds the lock
lock_table(h) ==
    /\ handlers[h].pc = "lock"
    /\ table_lock = 0
    /\ table_lock' = h
    /\ handlers' = [handlers EXCEPT ![h].pc = "push"]
    /\ UNCHANGED <<table, high_scores_file, submitted, outsideScores>>

\* add_entry: self.entries.push(entry)
add_entry_push(h) ==
    /\ handlers[h].pc = "push"
    /\ table' = push(table, handlers[h].entry)
    /\ handlers' = [handlers EXCEPT ![h].pc = "sort"]
    /\ UNCHANGED <<high_scores_file, table_lock, submitted, outsideScores>>

\* add_entry: self.entries.sort_by(..)
add_entry_sort(h) ==
    /\ handlers[h].pc = "sort"
    /\ table' = sort_by(table)
    /\ handlers' = [handlers EXCEPT ![h].pc = "truncate"]
    /\ UNCHANGED <<high_scores_file, table_lock, submitted, outsideScores>>

\* add_entry: self.entries.truncate(10)
add_entry_truncate(h) ==
    /\ handlers[h].pc = "truncate"
    /\ table' = truncate(table, TableSize)
    /\ handlers' = [handlers EXCEPT ![h].pc = "save"]
    /\ UNCHANGED <<high_scores_file, table_lock, submitted, outsideScores>>

\* add_entry: self.save()
save(h) ==
    /\ handlers[h].pc = "save"
    /\ high_scores_file' = table
    /\ handlers' = [handlers EXCEPT ![h].pc = "unlock"]
    /\ UNCHANGED <<table, table_lock, submitted, outsideScores>>

\* submit_score returns: the MutexGuard is dropped and the request answered
unlock_table(h) ==
    /\ handlers[h].pc = "unlock"
    /\ table_lock' = 0
    /\ submitted' = submitted (+) SetToBag({handlers[h].entry.score})
    /\ handlers' = [handlers EXCEPT ![h] = [pc |-> "idle", entry |-> <<>>]]
    /\ UNCHANGED <<table, high_scores_file, outsideScores>>

\* main: the server starts with no file high_scores.json
InitScores ==
    /\ NoTree
    /\ NoQuery
    /\ NoScene
    /\ NoRects
    /\ NoHandoff
    /\ NoRng
    /\ NoAssets
    /\ NoAnimation
    /\ NoBouncy
    /\ NoImpulses
    /\ NoClock
    /\ NoMars
    /\ table = HighScoreTable_new
    /\ high_scores_file = <<>>
    /\ table_lock = 0
    /\ handlers = [h \in Handlers |-> [pc |-> "idle", entry |-> <<>>]]
    /\ submitted = EmptyBag

NextScores ==
    \E h \in Handlers :
        \/ \E name \in Names : \E score \in Scores : receive(h, HighScoreEntry(name, score))
        \/ lock_table(h)
        \/ add_entry_push(h)
        \/ add_entry_sort(h)
        \/ add_entry_truncate(h)
        \/ save(h)
        \/ unlock_table(h)

SpecScores == InitScores /\ [][NextScores]_vars

----------------------------------------------------------------------------
(* Vocabulary of the properties *)

Built == nodes # <<>>

Indices == 0..(Len(nodes) - 1)

Bounds(i) == NodeAt(nodes, i).bounds

ChildSet(i) ==
    LET c == NodeAt(nodes, i).children IN { c[k] : k \in DOMAIN c }

\* inner lies in outer, edges included
Contains(outer, inner) ==
    /\ outer.min.x <= inner.min.x /\ inner.max.x <= outer.max.x
    /\ outer.min.y <= inner.min.y /\ inner.max.y <= outer.max.y

\* inner lies in outer and touches none of its edges
StrictlyInside(outer, inner) ==
    /\ outer.min.x < inner.min.x /\ inner.max.x < outer.max.x
    /\ outer.min.y < inner.min.y /\ inner.max.y < outer.max.y

WorldRect ==
    Rect2D_new(Vec2(0 - (screen_size[1] \div 2), 0 - (screen_size[2] \div 2)),
               Vec2(screen_size[1] \div 2, screen_size[2] \div 2))

Parents(j) == { i \in Indices : j \in ChildSet(i) }

RECURSIVE DepthOf(_)
\* number of parent links from node j up to the root
DepthOf(j) == IF Parents(j) = {} THEN 0 ELSE 1 + DepthOf(CHOOSE i \in Parents(j) : TRUE)

RECURSIVE Height(_)
\* number of child links from node i down to its deepest descendant
Height(i) ==
    IF ChildSet(i) = {}
    THEN 0
    ELSE LET hs == { Height(c) : c \in ChildSet(i) }
         IN  1 + (CHOOSE h \in hs : \A g \in hs : g <= h)

\* depth of the deepest level of the tree
TreeDepth == Height(0)

RECURSIVE Descendants(_)
Descendants(i) == ChildSet(i) \cup UNION { Descendants(c) : c \in ChildSet(i) }

Returned == sn_path[Len(sn_path)]

Visited == { sn_path[k] : k \in DOMAIN sn_path }

RanSmallest == "smallest_node" \in called

RanIntersecting == "intersecting_nodes" \in called

QueryA == QueryWith(bodies, "A")

QueryB == QueryWith(bodies, "B")

Rect(e) == BodyRect(bodies, e)

Overlap(a, b) == a # b /\ intersect(Rect(a), Rect(b))

Reported(a, b) == CopiesIn(OnCollision(a, b), events)

----------------------------------------------------------------------------
(* Properties of check_collisions, checked under Spec *)

\* C1 as stated: after a pass, every pair (a in A, b in B, a # b) whose
\* rectangles intersect has been reported, and exactly once, whatever the
\* positions.
C1_EveryPairOnce ==
    checked => \A a \in QueryA : \A b \in QueryB :
                  Overlap(a, b) => Reported(a, b) = 1

\* C1 amended: after a pass, every pair (a in A, b in B, a # b) whose
\* rectangles intersect and whose b lies inside the world rectangle has been
\* reported exactly once.
C1_EveryPairOnceInWorld ==
    checked => \A a \in QueryA : \A b \in QueryB :
                  (Overlap(a, b) /\ Contains(WorldRect, Rect(b))) => Reported(a, b) = 1

\* a pass over two overlapping bodies that were filed under different nodes
C1_Witness ==
    /\ checked
    /\ \E a \in QueryA : \E b \in QueryB :
         /\ Overlap(a, b)
         /\ Contains(WorldRect, Rect(b))
         /\ smallest_node(nodes, Rect(b)) # 0
         /\ smallest_node(nodes, Rect(a)) # smallest_node(nodes, Rect(b))
         /\ Reported(a, b) = 1

SameCategory == \A e \in DOMAIN bodies : bodies[e].markers = {"A", "B"}

Twins(a, b) ==
    /\ a # b
    /\ bodies[a].position.end_frame = bodies[b].position.end_frame
    /\ bodies[a].bbox = bodies[b].bbox

\* C2 as stated: with A and B the same category no event names one entity
\* twice, and two distinct entities with the same position and the same box
\* are reported as colliding with each other.
C2_IdentityNotValue ==
    (checked /\ SameCategory) =>
        /\ \A ev \in BagToSet(events) : ev.entity_a # ev.entity_b
        /\ \A a \in QueryA : \A b \in QueryB : Twins(a, b) => Reported(a, b) >= 1

\* C2 amended: with A and B the same category no event names one entity
\* twice, and two distinct entities with the same position and the same box
\* are reported as colliding with each other when that box intersects the
\* world rectangle.
C2_IdentityNotValueInWorld ==
    (checked /\ SameCategory) =>
        /\ \A ev \in BagToSet(events) : ev.entity_a # ev.entity_b
        /\ \A a \in QueryA : \A b \in QueryB :
             (Twins(a, b) /\ intersect(WorldRect, Rect(a))) => Reported(a, b) >= 1

\* a pass over two entities of one category at one place with one box
C2_Witness ==
    /\ checked
    /\ SameCategory
    /\ \E a \in QueryA : \E b \in QueryB :
         Twins(a, b) /\ intersect(WorldRect, Rect(a)) /\ Reported(a, b) >= 1

----------------------------------------------------------------------------
(* Properties of the tree, checked under SpecQuery *)

\* C3: the tree built by StaticQuadTree::new(world_size, max_depth) has
\* exactly (4^(max_depth+1) - 1) / 3 nodes, for every max_depth >= 0.
C3_NodeCount ==
    Built => Len(nodes) = (Pow2(2 * (max_depth + 1)) - 1) \div 3

\* C4: every node but the root has a parent, its bounds lie in the bounds of
\* that parent and in the root's bounds, and the root's bounds are the world
\* rectangle centred on the origin.
C4_ChildInParent ==
    Built =>
        /\ Bounds(0) = WorldRect
        /\ Indices \ {0} = UNION { ChildSet(i) : i \in Indices }
        /\ \A i \in Indices : \A j \in ChildSet(i) : Contains(Bounds(i), Bounds(j))
        /\ \A j \in Indices : Contains(Bounds(0), Bounds(j))

\* a built tree with a node two levels below the root
C4_Witness == Built /\ \E j \in Indices : DepthOf(j) >= 2

\* C5: node 0 is the root; a node has children iff its depth is below
\* max_depth; the children of a node are four nodes at consecutive indices
\* whose bounds are the node's quadrants in the order top-left, top-right,
\* bottom-left, bottom-right; every node at depth max_depth has no children.
C5_CompleteTree ==
    Built =>
        /\ Parents(0) = {}
        /\ \A j \in Indices \ {0} : Cardinality(Parents(j)) = 1
        /\ \A i \in Indices :
             LET c == NodeAt(nodes, i).children IN
             /\ (c # None) <=> (DepthOf(i) < max_depth)
             /\ DepthOf(i) <= max_depth
             /\ c # None =>
                  /\ Len(c) = 4
                  /\ \A k \in 1..4 : c[k] = c[1] + (k - 1) /\ c[k] \in Indices
                  /\ \A k \in 1..4 : Bounds(c[k]) = quadrants(Bounds(i))[k]

C7_InsideLeaf ==
    RanSmallest =>
        \A i \in Indices :
            ( /\ StrictlyInside(Bounds(i), target)
              /\ DepthOf(i) = TreeDepth )
            => (Returned = i /\ NodeAt(nodes, i).children = None)

\* smallest_node has run on a target strictly inside a node two levels down
C7_Witness ==
    /\ RanSmallest
    /\ \E i \in Indices :
         /\ StrictlyInside(Bounds(i), target)
         /\ DepthOf(i) = TreeDepth
         /\ DepthOf(i) >= 2
         /\ Returned = i

\* C8: the bounds of the node smallest_node returns contain the target, and
\* no descendant of that node has bounds that contain the target.
C8_SmallestContaining ==
    RanSmallest =>
        /\ Contains(Bounds(Returned), target)
        /\ \A d \in Descendants(Returned) : ~Contains(Bounds(d), target)

\* C9 as stated: for every target, intersecting_nodes holds the root and
\* every node smallest_node visits for the same target.
C9_PathInIntersecting ==
    (RanSmallest /\ RanIntersecting) => (0 \in in_nodes /\ Visited \subseteq in_nodes)

\* C9 amended: for every target that intersects the world rectangle,
\* intersecting_nodes holds the root and every node smallest_node visits for
\* the same target.
C9_PathInIntersectingInWorld ==
    (RanSmallest /\ RanIntersecting /\ intersect(Bounds(0), target))
    => (0 \in in_nodes /\ Visited \subseteq in_nodes)

\* both operations have run on a target for which smallest_node dived twice
C9_Witness ==
    /\ RanSmallest
    /\ RanIntersecting
    /\ intersect(Bounds(0), target)
    /\ Len(sn_path) >= 3
    /\ Visited \subseteq in_nodes

\* C10: intersecting_nodes returns exactly the indices of the nodes whose
\* bounds intersect the target.
C10_ExactlyIntersecting ==
    RanIntersecting => in_nodes = { i \in Indices : intersect(Bounds(i), target) }

\* intersecting_nodes has run on a target that meets some nodes two levels
\* down and misses others
C10_Witness ==
    /\ RanIntersecting
    /\ \E i \in in_nodes : DepthOf(i) >= 2
    /\ \E j \in Indices \ in_nodes : DepthOf(j) >= 2

----------------------------------------------------------------------------
(* Rect2D *)

RanIntersect == rect_out # None /\ rect_out.op = "intersect"

RanQuadrants == rect_out # None /\ rect_out.op = "quadrants"

WellFormed(r) == r.min.x <= r.max.x /\ r.min.y <= r.max.y

\* C11: intersect is symmetric: for all rectangles A and B, well-formed or
\* not, A.intersect(B) returns what B.intersect(A) returns.
C11_IntersectSymmetric ==
    RanIntersect => (rect_out.a_b = rect_out.b_a)

\* two different well-formed rectangles that touch along an edge
C11_Witness ==
    /\ RanIntersect
    /\ placed = None
    /\ rect_a # rect_b
    /\ WellFormed(rect_a) /\ WellFormed(rect_b)
    /\ rect_out.a_b
    /\ rect_a.max.x = rect_b.min.x

\* C12: for every well-formed rectangle A, quadrants() returns four
\* rectangles; every point of A lies in at least one of them, each of them
\* lies inside A, and a point that two of them share lies on an edge of both.
PointsOf(r) == { Vec2(x, y) : x \in (r.min.x)..(r.max.x), y \in (r.min.y)..(r.max.y) }

HasPoint(r, p) ==
    /\ r.min.x <= p.x /\ p.x <= r.max.x
    /\ r.min.y <= p.y /\ p.y <= r.max.y

OnEdge(r, p) == p.x \in {r.min.x, r.max.x} \/ p.y \in {r.min.y, r.max.y}

Distance == IF placed.b.x >= placed.a.x THEN placed.b.x - placed.a.x
            ELSE placed.a.x - placed.b.x

\* C15: two bodies with half-extents 4x4 on the same y at horizontal
\* distance d have rectangles that intersect exactly if d <= 8.0 (80
\* tenths): they do at 7.9 and at 8.0, they do not at 8.1.
C15_TouchingIntersects ==
    (RanIntersect /\ placed # None) => (rect_out.a_b <=> (Distance <= 80))

\* the two bodies at distance 8.0, their edges touching
C15_Witness ==
    /\ RanIntersect
    /\ placed # None
    /\ Distance = 80
    /\ rect_a.max.x = rect_b.min.x
    /\ rect_out.a_b

----------------------------------------------------------------------------
(* check_collisions, continued *)

At(e, p) == bodies[e].position.end_frame = p

\* C13: in the 1024 x 768 world of depth 4, with a the only body of
\* category A and b the only body of category B, both at (0, 0) with the
\* same 8 x 8 box, the pass reports the pair (a, b) at least once and no
\* other pair.
C13_CentreScenario ==
    ( /\ checked
      /\ screen_size = SceneSize /\ max_depth = SceneDepth
      /\ QueryA = {1} /\ QueryB = {2}
      /\ At(1, Vec2(0, 0)) /\ At(2, Vec2(0, 0))
      /\ bodies[1].bbox = SceneBox /\ bodies[2].bbox = SceneBox )
    => ( /\ Reported(1, 2) >= 1
         /\ BagToSet(events) = {OnCollision(1, 2)} )

C13_Witness ==
    /\ checked
    /\ Len(nodes) = 341
    /\ QueryA = {1} /\ QueryB = {2}
    /\ At(1, Vec2(0, 0)) /\ At(2, Vec2(0, 0))
    /\ Rect(1) = Rect2D_new(Vec2(0 - 4, 0 - 4), Vec2(4, 4))
    /\ Rect(2) = Rect(1)
    /\ Reported(1, 2) = 1

\* C14: every event of a pass names a body of category A and a body of
\* category B whose rectangles intersect; when no body of A overlaps a body
\* of B the pass writes no event.
C14_OnlyIntersecting ==
    checked =>
        /\ \A ev \in BagToSet(events) :
              /\ ev.entity_a \in QueryA
              /\ ev.entity_b \in QueryB
              /\ intersect(Rect(ev.entity_a), Rect(ev.entity_b))
        /\ (\A a \in QueryA : \A b \in QueryB : ~Overlap(a, b)) => events = EmptyBag

\* two bodies of both categories, apart from each other in one bucket: no event
C14_Witness ==
    /\ checked
    /\ QueryA = Entities /\ QueryB = Entities
    /\ ~Overlap(1, 2)
    /\ \E node \in DOMAIN spatial_index : Cardinality(spatial_index[node]) = 2
    /\ events = EmptyBag

C17_TreeFrozen == [][Built => nodes' = nodes]_vars

\* all three operations ran on the constructed tree
C17_Witness ==
    /\ Built
    /\ RanSmallest /\ RanIntersecting
    /\ prev_events # <<>>
    /\ Len(nodes) = 341

----------------------------------------------------------------------------
(* The handoff of the built world *)

\* the builder of the current visit to WorldBuilding
CurrentBuilder == Len(builders)

\* C18: in every interleaving of the builder threads with the frame loop,
\* Playing is asked for only after the builder of the current visit has
\* stored its world; setup finds the slot filled (take().unwrap() does not
\* panic); the worlds are consumed once each, in the order they were built,
\* and the slot is empty from setup until the next builder stores.
C18_Handoff ==
    /\ ~panicked
    /\ next_state = "Playing" => NEW_WORD = CurrentBuilder
    /\ consumed = [k \in 1..Len(consumed) |-> k]
    /\ phase = "Playing" => (consumed # <<>> /\ consumed[Len(consumed)] = CurrentBuilder)
    /\ NEW_WORD # 0 =>
          /\ phase = "WorldBuilding"
          /\ NEW_WORD = CurrentBuilder
          /\ builders[CurrentBuilder] \in {"ready", "unlock", "done"}
          /\ Len(consumed) = CurrentBuilder - 1

\* the second visit to WorldBuilding ended in Playing with the second world
C18_Witness ==
    /\ phase = "Playing"
    /\ consumed = <<1, 2>>
    /\ NEW_WORD = 0

----------------------------------------------------------------------------
(* RandomNumberGenerator *)

Shorter(a, b) == IF Len(a) <= Len(b) THEN Len(a) ELSE Len(b)

SeededAlike ==
    /\ rng_made # <<>>
    /\ rng_made[1].ctor = "seeded" /\ rng_made[2].ctor = "seeded"
    /\ rng_made[1].arg = rng_made[2].arg

----------------------------------------------------------------------------
(* AssetManager *)

\* the result of AssetManager::new().add_image(tag, filename) for a file of
\* the assets directory
AddedImageToNew ==
    /\ asset_call # None
    /\ asset_adds = 1
    /\ asset_call.op = "add_image"
    /\ asset_call.filename \in AssetsDir

\* C20: for a filename that exists in the assets directory,
\* AssetManager::new().add_image(tag, filename) returns Ok, and the first
\* entry (index 0) of the returned manager's asset list is
\* (tag, filename, AssetType::Image).
C20_AddedImageIsFirst ==
    AddedImageToNew =>
        /\ asset_result = "Ok"
        /\ Len(asset_list) > 0
        /\ asset_list[1] = <<asset_call.tag, asset_call.filename, [type |-> "Image"]>>

\* an add_ call has returned in this step
AddReturns == asset_adds' = asset_adds + 1

\* C21: for a filename that does not exist in the assets directory, add_image,
\* add_sound and add_sprite_sheet return an error and add no entry to the
\* asset list; an entry is pushed only after the existence check has
\* succeeded, and it is the entry of the call.
C21_NoEntryOnError ==
    [][AddReturns =>
        /\ ~asset_exists(asset_call'.filename) =>
              asset_result' = "Err" /\ asset_list' = asset_list
        /\ asset_list' # asset_list =>
              /\ asset_exists(asset_call'.filename)
              /\ asset_result' = "Ok"
              /\ Len(asset_list') = Len(asset_list) + 1
              /\ SubSeq(asset_list', 1, Len(asset_list)) = asset_list
              /\ asset_list'[Len(asset_list')][1] = asset_call'.tag
              /\ asset_list'[Len(asset_list')][2] = asset_call'.filename]_vars

\* each of the three add_ calls has failed on a missing file, after a call
\* that succeeded
C21_WitnessOf(op) ==
    /\ asset_adds = 2
    /\ asset_result = "Err"
    /\ asset_call.op = op
    /\ asset_call.filename = "non-existing.png"
    /\ Len(asset_list) = 3

C21_Witness == C21_WitnessOf("add_sprite_sheet")

----------------------------------------------------------------------------
(* AnimationCycle *)

\* this step is a call of animation.switch(new), by a system or by flap
SwitchCalled(new) ==
    \/ anim_call' = [op |-> "switch", new |-> new]
    \/ new = "Flapping" /\ anim_call' = [op |-> "flap", pressed |-> TRUE]

\* C22: AnimationCycle::switch(new) changes state only when new differs from
\* the current animation tag: with the same tag it leaves animation_tag,
\* current_frame and timer unchanged (a running animation is not restarted);
\* with a different tag it sets animation_tag to new and resets current_frame
\* and timer to 0.
C22_SwitchOnlyOnChange ==
    [][\A new \in AnimationTags :
          SwitchCalled(new) =>
              IF new = animation.animation_tag
              THEN /\ animation'.animation_tag = animation.animation_tag
                   /\ animation'.current_frame = animation.current_frame
                   /\ animation'.timer = animation.timer
              ELSE /\ animation'.animation_tag = new
                   /\ animation'.current_frame = 0
                   /\ animation'.timer = 0]_vars

\* flap has switched to "Flapping" while that animation was on its third
\* frame with time on its timer, and it still is
C22_Witness ==
    /\ anim_call = [op |-> "flap", pressed |-> TRUE]
    /\ animation.animation_tag = "Flapping"
    /\ animation.current_frame = 2
    /\ animation.timer > 0

----------------------------------------------------------------------------
(* The spatial index of check_collisions, checked under SpecPass *)

\* the (entity, bbox) pushed for body b
EntryOf(b) == [entity |-> b, bbox |-> Rect(b)]

\* the nodes whose bucket holds body b
BucketsOf(b) == { n \in DOMAIN spatial_index : EntryOf(b) \in spatial_index[n] }

\* C23 as stated: after the first loop of a pass, every body b of B is in the
\* bucket of every node that intersecting_nodes returns for b's rectangle.
C23_UnderEveryIntersectingNode ==
    checked => \A b \in QueryB :
                  intersecting_nodes(nodes, Rect(b)) \subseteq BucketsOf(b)

\* C23 amended: after the first loop of a pass, every body b of B is in
\* exactly one bucket, the one of the node smallest_node returns for b's
\* rectangle.
C23_UnderSmallestNode ==
    checked => \A b \in QueryB : BucketsOf(b) = { smallest_node(nodes, Rect(b)) }

\* a pass has filed a body whose rectangle intersects several nodes under
\* its smallest node, which is not the root, and under no other
C23_Witness ==
    /\ checked
    /\ \E b \in QueryB :
         /\ Cardinality(intersecting_nodes(nodes, Rect(b))) > 2
         /\ smallest_node(nodes, Rect(b)) # 0
         /\ BucketsOf(b) = { smallest_node(nodes, Rect(b)) }

----------------------------------------------------------------------------
(* The collisions system of the bouncy example *)

BallsRan == tested # <<>>

RectOf(e) == BallRect(balls, e)

SmallestOf(e) == smallest_node(nodes, RectOf(e))

BallsOverlap(a, b) == a # b /\ intersect(RectOf(a), RectOf(b))

\* the bodies the search of body a was tested against
TestedBy(a) == { tested[a][k] : k \in DOMAIN tested[a] }

\* the other bodies in the bucket the search of body a examines, in order
CandidatesOf(a) ==
    IF SmallestOf(a) \in DOMAIN ball_index
    THEN SelectSeq(ball_index[SmallestOf(a)], LAMBDA entry : entry.entity # a)
    ELSE <<>>

\* C24 as stated: a body is tested only against bodies whose smallest node is
\* its own smallest node; two overlapping bodies with different smallest
\* nodes are never tested against each other, and their collision is missed.
C24_OnlySameSmallestNode ==
    BallsRan =>
        \A a, b \in BallEntities :
            /\ b \in TestedBy(a) => SmallestOf(b) = SmallestOf(a)
            /\ (BallsOverlap(a, b) /\ SmallestOf(a) # SmallestOf(b)) =>
                   b \notin TestedBy(a) /\ a \notin TestedBy(b)

\* C24 amended: a body is tested only against the other bodies in the bucket
\* of its own smallest node, which are the bodies whose rectangle intersects
\* that node, whatever their own smallest node is; two overlapping bodies
\* inside the world are tested against each other also when their smallest
\* nodes differ, unless the search stopped at an overlapping body before, so
\* each of them is bounced.
C24_SmallestNodeBucket ==
    BallsRan =>
        \A a \in BallEntities :
            /\ \A b \in TestedBy(a) :
                  b # a /\ intersect(RectOf(b), Bounds(SmallestOf(a)))
            /\ \A b \in BallEntities :
                  (BallsOverlap(a, b) /\ Contains(WorldRect, RectOf(a))
                                      /\ Contains(WorldRect, RectOf(b))) =>
                      /\ \/ b \in TestedBy(a)
                         \/ \E c \in TestedBy(a) : BallsOverlap(a, c)
                      /\ bounced[a] # <<>>

\* two overlapping bodies inside the world, one over the centre of the world
\* and one inside a leaf, have been tested against each other and bounced
C24_Witness ==
    /\ BallsRan
    /\ \E a, b \in BallEntities :
         /\ BallsOverlap(a, b)
         /\ Contains(WorldRect, RectOf(a))
         /\ Contains(WorldRect, RectOf(b))
         /\ SmallestOf(a) = 0
         /\ ChildSet(SmallestOf(b)) = {}
         /\ b \in TestedBy(a)
         /\ a \in TestedBy(b)
         /\ bounced[a] # <<>>
         /\ bounced[b] # <<>>

\* C25: each body causes at most one bounce impulse per pass: the search
\* stops at the first other body in the examined bucket whose rectangle
\* intersects its own, the impulse targets the searching body itself, and a
\* body with no intersecting candidate causes no impulse.
C25_FirstMatchOnly ==
    BallsRan =>
        \A a \in BallEntities :
            LET candidates == CandidatesOf(a)
                seen == tested[a]
                hits == { k \in DOMAIN candidates : intersect(RectOf(a), candidates[k].bbox) }
            IN  /\ Len(bounced[a]) <= 1
                /\ Len(seen) <= Len(candidates)
                /\ \A k \in DOMAIN seen : seen[k] = candidates[k].entity
                /\ \A k \in DOMAIN seen : k < Len(seen) => k \notin hits
                /\ IF hits = {}
                   THEN bounced[a] = <<>> /\ Len(seen) = Len(candidates)
                   ELSE /\ Len(seen) \in hits
                        /\ Len(bounced[a]) = 1
                        /\ bounced[a][1].target = a

\* a body with two overlapping candidates in its bucket has stopped at the
\* first and written one impulse, in a pass of three checks
C25_Witness ==
    /\ BallsRan
    /\ \E a \in BallEntities :
         /\ Cardinality({ k \in DOMAIN CandidatesOf(a) :
                            intersect(RectOf(a), CandidatesOf(a)[k].bbox) }) = 2
         /\ Len(tested[a]) = 1
         /\ Len(bounced[a]) = 1
    /\ checks = 3

----------------------------------------------------------------------------
(* sum_impulses *)

RanImpulses == impulse_run # <<>>

\* the impulse read in place k is the last one read with its source
LastOfSource(read, k) ==
    \A j \in DOMAIN read : read[j].source = read[k].source => j <= k

\* the sum of the relative amounts applied to entity e, from the k-th
\* applied impulse on
RECURSIVE RelativeSum(_, _, _, _)
RelativeSum(read, applied, k, e) ==
    IF k > Len(applied)
    THEN 0
    ELSE LET impulse == read[applied[k]] IN
         (IF impulse.target = e /\ ~impulse.absolute THEN impulse.amount ELSE 0)
           + RelativeSum(read, applied, k + 1, e)

\* C26: in one run of sum_impulses only the last impulse read with a source
\* is applied to a velocity, whatever entities the earlier impulses of that
\* source target; and once an absolute impulse has been applied to a target,
\* no further impulse changes that target's velocity in the run.
C26_DedupedBySource ==
    RanImpulses =>
        LET read == impulse_run.read
            applied == impulse_run.applied
            overriding(e) == { i \in DOMAIN applied :
                                 read[applied[i]].target = e /\ read[applied[i]].absolute }
        IN  /\ \A i \in DOMAIN applied : LastOfSource(read, applied[i])
            /\ \A i, j \in DOMAIN applied :
                  (i < j /\ read[applied[i]].absolute) =>
                      read[applied[j]].target # read[applied[i]].target
            /\ \A k \in DOMAIN read :
                  (LastOfSource(read, k) /\ read[k].target \in Movers
                     /\ \A i \in DOMAIN applied : applied[i] # k) =>
                      overriding(read[k].target) # {}
            /\ \A e \in Movers :
                  IF overriding(e) # {}
                  THEN \E i \in overriding(e) : velocities[e] = read[applied[i]].amount
                  ELSE velocities[e] =
                         impulse_run.before[e] + RelativeSum(read, applied, 1, e)

\* a run has read three impulses: the first was discarded for the third,
\* which has the same source and another target and overrode the velocity
\* of its target; the second, of another source, came later for the same
\* target and changed nothing
C26_Witness ==
    /\ RanImpulses
    /\ LET read == impulse_run.read IN
       /\ Len(read) = 3
       /\ read[1].source = read[3].source
       /\ read[1].target \in Movers
       /\ read[3].target \in Movers
       /\ read[1].target # read[3].target
       /\ velocities[read[1].target] = impulse_run.before[read[1].target]
       /\ read[3].absolute
       /\ read[2].target = read[3].target
       /\ read[2].source # read[3].source
       /\ impulse_run.order = <<3, 2>>
       /\ impulse_run.applied = <<3>>
       /\ velocities[read[3].target] = read[3].amount
       /\ velocities[read[3].target] # impulse_run.before[read[3].target]

----------------------------------------------------------------------------
(* check_collisions inside the world, checked under SpecPass *)

InWorld(e) == Contains(WorldRect, Rect(e))

\* C27: for bodies whose rectangles lie entirely inside the world rectangle,
\* a pass emits the event (a, b) exactly once if a # b and their rectangles
\* intersect, and never otherwise; and whenever the rectangles of a and b
\* intersect, smallest_node(rect(b)) is one of intersecting_nodes(rect(a)).
C27_ExactlyOnceInWorld ==
    checked =>
        \A a \in QueryA : \A b \in QueryB :
            (InWorld(a) /\ InWorld(b)) =>
                /\ Reported(a, b) = IF Overlap(a, b) THEN 1 ELSE 0
                /\ intersect(Rect(a), Rect(b)) =>
                      smallest_node(nodes, Rect(b)) \in intersecting_nodes(nodes, Rect(a))

\* a pass over two bodies inside the world, both of A and of B: they overlap,
\* the one is filed under a node of the deepest level, and each pair of them
\* was reported once, no body with itself
C27_Witness ==
    /\ checked
    /\ QueryA = Entities /\ QueryB = Entities
    /\ InWorld(1) /\ InWorld(2)
    /\ Overlap(1, 2)
    /\ max_depth = MaxDepth
    /\ ChildSet(smallest_node(nodes, Rect(2))) = {}
    /\ Reported(1, 2) = 1 /\ Reported(2, 1) = 1
    /\ Reported(1, 1) = 0 /\ Reported(2, 2) = 0

----------------------------------------------------------------------------
(* physics_clock, checked under SpecClock *)

ClockCalled == clock_call # <<>>

\* no PhysicsPosition was changed by the last call of physics_clock
PositionsKept ==
    \A e \in PhysicsBodies :
        /\ clock_call.after[e].start_frame = clock_call.before[e].start_frame
        /\ clock_call.after[e].end_frame = clock_call.before[e].end_frame

\* the last call of physics_clock began every body's next frame where the
\* last one ended
FramesAdvanced ==
    \A e \in PhysicsBodies :
        /\ clock_call.after[e].start_frame = clock_call.before[e].end_frame
        /\ clock_call.after[e].end_frame = clock_call.before[e].end_frame

\* C28: after every call of physics_clock the accumulated time is below
\* PHYSICS_TICK_TIME; a call in which the accumulated time reaches
\* PHYSICS_TICK_TIME leaves it at 0, writes exactly one PhysicsTick and sets
\* every body's start_frame to its end_frame; every other call writes no tick
\* and leaves start_frame and end_frame of every body as they were; no call
\* writes more than one tick, however long the frame took
C28_ClockBelowTick ==
    /\ clock < PHYSICS_TICK_TIME
    /\ ClockCalled =>
          /\ clock_call.left < PHYSICS_TICK_TIME
          /\ clock_call.ticks <= 1
          /\ IF clock_call.clock + clock_call.ms >= PHYSICS_TICK_TIME
             THEN clock_call.left = 0 /\ clock_call.ticks = 1 /\ FramesAdvanced
             ELSE /\ clock_call.left = clock_call.clock + clock_call.ms
                  /\ clock_call.ticks = 0
                  /\ PositionsKept

\* a frame of 100 ms, three ticks long, came when the clock stood at 32 ms
\* and the bodies had moved since the last tick: one tick was written
C28_Witness ==
    /\ ClockCalled
    /\ clock_call.ms = 100 /\ clock_call.clock = 32
    /\ \A e \in PhysicsBodies :
          clock_call.before[e].start_frame # clock_call.before[e].end_frame
    /\ clock_call.ticks = 1
    /\ clock = 0

----------------------------------------------------------------------------
(* Mars Base One: end_game, checked under SpecMars *)

EndGameRan == end_game_run # <<>>

\* C29: whenever end_game runs with at least one miner saved it asks for
\* GameOver, also when collect_and_despawn_game_element has worked through
\* several miner collisions since end_game ran last
C29_GameOverOnceMinerSaved ==
    (EndGameRan /\ end_game_run.miners_saved >= 1) => end_game_run.asked = "GameOver"

----------------------------------------------------------------------------
(* The high-score server, checked under SpecScores *)

\* no submit_score holds the lock: what a reader of the table finds
TableFree == handlers # <<>> /\ table_lock = 0

\* the scores of the table, in its order
TableScores == [i \in DOMAIN table |-> table[i].score]

\* the scores of a bag, the highest first
RECURSIVE ScoresDescending(_)
ScoresDescending(bag) ==
    IF BagToSet(bag) = {}
    THEN <<>>
    ELSE LET top == CHOOSE s \in BagToSet(bag) : \A o \in BagToSet(bag) : o <= s
         IN  <<top>> \o ScoresDescending(bag (-) SetToBag({top}))

\* the n highest scores of a bag, all of them when it has fewer
Highest(bag, n) ==
    LET all == ScoresDescending(bag) IN
    IF Len(all) > n THEN SubSeq(all, 1, n) ELSE all

\* C30: whenever no submit_score holds the lock, the table has at most 10
\* entries, their scores do not increase from one entry to the next, and
\* they are the 10 highest scores of all requests answered so far (all of
\* them while fewer than 10 were answered), concurrent requests included;
\* the file holds the same table
C30_TenHighestKept ==
    TableFree =>
        /\ Len(table) <= TableSize
        /\ \A i, j \in DOMAIN table : i <= j => table[i].score >= table[j].score
        /\ TableScores = Highest(submitted, TableSize)
        /\ high_scores_file = table

\* eleven requests were answered, the lowest score only once: it is not in
\* the table, and a further request is waiting for the lock
C30_Witness ==
    /\ TableFree
    /\ BagCardinality(submitted) = TableSize + 1
    /\ CopiesIn(1, submitted) = 1
    /\ CopiesIn(3, submitted) > 0
    /\ Len(table) = TableSize
    /\ \A i \in DOMAIN table : table[i].score # 1
    /\ \E h \in Handlers : handlers[h].pc = "lock"

====
